---------------------------- MODULE Spec2Model ----------------------------
(***************************************************************************)
(* A model of lrpc: one client session (client.Client) talking to one      *)
(* server session (server.Server.handleConn) over a codec bound to a       *)
(* bidirectional stream.                                                    *)
(*                                                                         *)
(* The server is src/server/server.go.  The client is                      *)
(* src/client/client.go, the client that exchanges dynamically typed       *)
(* values with that server; its IsError / IsChannel / ChannelDone flags    *)
(* are the Error / Channel / ChannelDone values of Response.Type.          *)
(*                                                                         *)
(* Every goroutine is a process with a program counter.  A step of the     *)
(* model is the code between two points where the goroutine touches state  *)
(* another goroutine can see.  A Go panic stops the whole process: cpanic  *)
(* (client) and spanic (server) record it and disable the process.         *)
(*                                                                         *)
(* Session scenarios share the actions: Spec (concurrent single-shot       *)
(* Calls), SpecCancel (Arith Calls whose ctx may be cancelled), SpecChan (a*)
(* channel Call next to another Call, with cancellation by the user),      *)
(* SpecServe (a channel Call on a server whose parent context may be       *)
(* cancelled), SpecSuspend (a method that suspends), SpecSink (Calls whose *)
(* returnSink does not fit the response), SpecPromote (methods that call   *)
(* MakeChannel), SpecEof (a stream that ends), SpecCodec (Calls over each  *)
(* codec), SpecSrvWrite and SpecCliWrite (the encodes of each side, taken  *)
(* in two steps so that they can overlap), SpecDecode (requests that do    *)
(* not decode and responses nobody waits for), SpecServeEof (a client that *)
(* closes the stream under an active channel), SpecCoerce (arguments that  *)
(* are not of the declared type), SpecNoArg (requests without argument),   *)
(* SpecEncode (Calls whose Encode fails), SpecTicker (a producer that      *)
(* pushes at every tick) and SpecPeer (a second session of the same        *)
(* Server).  SpecRegister, SpecListen and SpecContext are about what       *)
(* lives outside a session: Register, Serve and a handler's Context.  The  *)
(* Fair specifications add weak fairness for the goroutines of the program.*)
(***************************************************************************)
EXTENDS Integers, Sequences, FiniteSets, TLC

\* ------------------------------------------------------------------ bounds
\* Number of Calls the user issues on the session (all may be concurrent).
NCalls == 2
\* Number of values a channel producer pushes at most.
MaxPush == 2
\* connections a listener hands to Accept
MaxConn == 5
\* Number of ticks of the ticker of Channel.Time
MaxTick == 7
\* Accept errors other than net.ErrClosed
MaxAcceptErr == 4
\* calls of Err, Done, Deadline and Value observed on one Context
MaxObs == 3

\* ------------------------------------------------------- program constants
\* client.go:81   make(chan *types.Response, 1)
SlotCap == 1
\* client.go:131  make(chan *types.Response, 5)
ChanCap == 5
\* context.go:103 make(chan any, 5)
PushCap == 5
\* lrpc_test.go:317 make(chan *time.Time, 2)
SinkCap == 2

\* -------------------------------------------------------------- identifiers
\* uuid.NewV4 never repeats: every Call and every MakeChannel gets its own
\* number.  Callers are 1..NCalls; the k-th lrpc.ChannelDone Call issued by
\* the forwarder of caller p's channel is Cd(p, k).
Callers == 1 .. NCalls
CallID(p) == p
ChanID(p) == 100 + p
CdID(p, k) == 200 + 10 * k + p
IsChanID(id) == id > 100 /\ id < 200
\* An ID no MakeChannel ever returned.
UnknownID == ChanID(0)

\* ------------------------------------------------------------ wire values
\* A dynamically typed value as the codec decodes it into `any`.
Nil == [k |-> "nil", v |-> 0]
IntV(n) == [k |-> "int", v |-> n]
StrV(s) == [k |-> "str", v |-> s]
\* a channel or call ID travelling as a string
IdV(i) == [k |-> "id", v |-> i]
SeqV(s) == [k |-> "seq", v |-> s]

\* ------------------------------------------------------------ error texts
ErrNoSuchReceiver == "no such receiver registered"
ErrNoSuchMethod == "no such method was found"
ErrInvalidMethod == "method invalid for lrpc call"
ErrUnexpectedArgument == "argument provided but the function does not accept any arguments"
ErrCannotConvert == "cannot convert"
ErrReturnNotChannel == "function call returns channel but return value is not a channel type"
ErrReturnNotPointer == "function call returns value but return value is not a pointer"
NoError == "nil"

\* -------------------------------------------------------- receiver registry
\* A method's reflected shape: number of inputs and outputs, whether the
\* first input is *Context, the declared type of the argument, whether the
\* first / second output is of type error.
Mtd(nin, nout, ctx1, argT, out0Err, out1Err) ==
    [numIn |-> nin, numOut |-> nout, firstIsCtx |-> ctx1, argType |-> argT,
     out0IsError |-> out0Err, out1IsError |-> out1Err]

\* lrpc{}: ChannelDone, Introspect, IntrospectAll (server.go:389, 412, 462)
LrpcMethods ==
    [ChannelDone |-> Mtd(2, 0, TRUE, "string", FALSE, FALSE),
     Introspect |-> Mtd(2, 2, TRUE, "string", FALSE, TRUE),
     IntrospectAll |-> Mtd(1, 2, TRUE, "none", FALSE, TRUE)]

\* Arith{}: Add, Sub, Mul, Div on [2]int (lrpc_test.go:152-166)
ArithMethods ==
    [Add |-> Mtd(2, 1, TRUE, "arr2int", FALSE, FALSE),
     Sub |-> Mtd(2, 1, TRUE, "arr2int", FALSE, FALSE),
     Mul |-> Mtd(2, 1, TRUE, "arr2int", FALSE, FALSE),
     Div |-> Mtd(2, 1, TRUE, "arr2int", FALSE, FALSE)]

\* Channel{}: Time(ctx, interval) error (lrpc_test.go:274), and two
\* methods that call MakeChannel as Time does: Count(ctx) (int, error),
\* which returns a value, and Fail(ctx) error, which returns an error.
ChannelMethods ==
    [Time |-> Mtd(2, 1, TRUE, "int", TRUE, FALSE),
     Count |-> Mtd(1, 2, TRUE, "none", FALSE, TRUE),
     Fail |-> Mtd(1, 1, TRUE, "none", TRUE, FALSE)]

\* A receiver with methods mtdValid rejects: no input, three inputs, three
\* outputs, a first input that is not *Context, a second output that is
\* not error.
BadMethods ==
    [NoInput |-> Mtd(0, 1, FALSE, "none", FALSE, FALSE),
     TooManyIn |-> Mtd(3, 1, TRUE, "int", FALSE, FALSE),
     TooManyOut |-> Mtd(2, 3, TRUE, "int", FALSE, TRUE),
     NoContext |-> Mtd(1, 1, FALSE, "none", FALSE, FALSE),
     SecondNotError |-> Mtd(2, 2, TRUE, "int", FALSE, FALSE)]

\* A receiver whose method suspends (sleeps, waits, blocks on I/O) before
\* it returns: Slow.Wait(ctx) error.
SlowMethods ==
    [Wait |-> Mtd(1, 1, TRUE, "none", TRUE, FALSE)]

\* Server.rcvrs after New() and Register(Arith{}), Register(Channel{}),
\* Register(Bad{}), Register(Slow{}).
rcvrs ==
    [lrpc |-> LrpcMethods, Arith |-> ArithMethods,
     Channel |-> ChannelMethods, Bad |-> BadMethods, Slow |-> SlowMethods]

\* A mtdValid that does not look at the number of outputs.
mtdValidAnyOutputs(m) ==
    IF m.numIn > 2 \/ m.numIn < 1 THEN FALSE
    ELSE IF ~m.firstIsCtx THEN FALSE
    ELSE TRUE

\* mtdValid (server.go:479)
mtdValid(m) ==
    IF m.numIn > 2 \/ m.numIn < 1 THEN FALSE
    ELSE IF m.numOut > 2 THEN FALSE
    ELSE IF ~m.firstIsCtx THEN FALSE
    ELSE IF m.numOut = 2 /\ ~m.out1IsError THEN FALSE
    ELSE TRUE


\* ------------------------------------------------------ argument coercion
\* The zero value of a declared argument type.
ZeroOf(t) ==
    CASE t = "arr2int" -> [k |-> "arr", v |-> <<0, 0>>]
      [] t = "string" -> StrV("")
      [] OTHER -> IntV(0)

\* The kinds of number a codec decodes into `any`: Go's int (gob), a sized
\* integer (MessagePack), a float64 (JSON).
IsNum(a) == a.k \in {"int", "i8", "f64"}

\* A ConvertSlice that takes an element only when it is an int already.
ElemToIntSameTypeOnly(e) == IF e.k = "int" THEN e.v ELSE 0

\* One element of a []any converted to int: inVal.CanConvert else zero
\* (utils.go:166-180).
ElemToInt(e) == IF IsNum(e) THEN e.v ELSE 0

\* reflectutil.ConvertSlice (utils.go:125): an array of matching length is
\* filled element by element; any other destination stays its zero value.
ConvertSlice(in, t) ==
    IF t = "arr2int" /\ Len(in) = 2
    THEN [k |-> "arr", v |-> <<ElemToInt(in[1]), ElemToInt(in[2])>>]
    ELSE ZeroOf(t)

\* Whether a dynamically typed value already has the declared type
\* (argVal.Type() != mtdType.In(1), server.go:140).
SameType(a, t) ==
    \/ a.k = "arr" /\ t = "arr2int"
    \/ a.k \in {"str", "id"} /\ t = "string"

\* reflectutil.Convert (utils.go:33) of a scalar: st is "ok", "err" (the
\* cannot-convert error) or "panic" (the unchecked in.Interface().([]any)
\* of utils.go:115, reached whenever the destination is an array).
\* CanConvert (utils.go:60) takes any number to an integer type and an
\* integer, but not a float, to a string.
Convert(a, t) ==
    IF SameType(a, t) THEN [st |-> "ok", val |-> a]
    ELSE IF IsNum(a) /\ t = "int" THEN [st |-> "ok", val |-> IntV(a.v)]
    ELSE IF a.k \in {"int", "i8"} /\ t = "string" THEN [st |-> "ok", val |-> StrV("rune")]
    ELSE IF t = "arr2int" THEN [st |-> "panic", val |-> Nil]
    ELSE [st |-> "err", val |-> Nil]

\* server.go:129-146: the argument as handed to the method.
Coerce(arg, t) ==
    IF arg.k = "seq" THEN [st |-> "ok", val |-> ConvertSlice(arg.v, t)]
    ELSE IF arg.k = "nil" THEN [st |-> "ok", val |-> Nil]
    ELSE Convert(arg, t)

\* ----------------------------------------------------------------- handlers
\* What a handler returns: its value (Nil when it has none), its error
\* (NoError for a nil error), whether it called ctx.MakeChannel(), the
\* channel ID lrpc.ChannelDone looked up, and whether it panicked.
HRes(val, err, promote, cancelID, panics) ==
    [val |-> val, err |-> err, promote |-> promote, cancelID |-> cancelID,
     panics |-> panics]

\* An Arith whose every method adds.
ArithCallAdd(method, in) == HRes(IntV(in[1] + in[2]), NoError, FALSE, 0, FALSE)

\* Arith (lrpc_test.go:152-166); in[0] / in[1] panics on a zero divisor.
ArithCall(method, in) ==
    CASE method = "Add" -> HRes(IntV(in[1] + in[2]), NoError, FALSE, 0, FALSE)
      [] method = "Sub" -> HRes(IntV(in[1] - in[2]), NoError, FALSE, 0, FALSE)
      [] method = "Mul" -> HRes(IntV(in[1] * in[2]), NoError, FALSE, 0, FALSE)
      [] OTHER -> IF in[2] = 0 THEN HRes(Nil, NoError, FALSE, 0, TRUE)
                  ELSE HRes(IntV(in[1] \div in[2]), NoError, FALSE, 0, FALSE)

\* lrpc.ChannelDone / Introspect / IntrospectAll (server.go:389-477).
\* ChannelDone returns nothing; what it cancels is decided by LrpcChannelDone.
LrpcCall(method, arg) ==
    CASE method = "ChannelDone" ->
            HRes(Nil, NoError, FALSE, IF arg.k = "id" THEN arg.v ELSE UnknownID, FALSE)
      [] method = "Introspect" ->
            IF arg.k = "str" /\ arg.v \in DOMAIN rcvrs
            THEN HRes(StrV("descs"), NoError, FALSE, 0, FALSE)
            ELSE HRes(Nil, ErrNoSuchReceiver, FALSE, 0, FALSE)
      [] OTHER -> HRes(StrV("descs"), NoError, FALSE, 0, FALSE)

ErrHandlerFailed == "failed"

\* Channel.Time (lrpc_test.go:274): MakeChannel, start the producer, nil.
\* Count returns 7 and Fail an error after MakeChannel.
ChannelCall(method, arg) ==
    CASE method = "Count" -> HRes(IntV(7), NoError, TRUE, 0, FALSE)
      [] method = "Fail" -> HRes(Nil, ErrHandlerFailed, TRUE, 0, FALSE)
      [] OTHER -> HRes(Nil, NoError, TRUE, 0, FALSE)

\* Slow.Wait: returns nil once it has resumed.
SlowCall(method, arg) == HRes(Nil, NoError, FALSE, 0, FALSE)

\* Whether the method suspends between its call and its return.
Suspends(rcvr, method) == rcvr = "Slow" /\ method = "Wait"

Invoke(rcvr, method, arg) ==
    CASE rcvr = "Arith" -> ArithCall(method, arg.v)
      [] rcvr = "lrpc" -> LrpcCall(method, arg)
      [] rcvr = "Slow" -> SlowCall(method, arg)
      [] OTHER -> ChannelCall(method, arg)

\* lrpc.ChannelDone's lookup (server.go:391-401): the contexts it cancels
\* and deletes, given the active-channel map.
LrpcChannelDone(id, ctxs) == IF id \in ctxs THEN {id} ELSE {}

\* ------------------------------------------------------------------ execute
\* Server.execute's result: the returned value and error, whether the
\* method was called, and what the call did.
XRes(val, err, invoked, h) ==
    [val |-> val, err |-> err, invoked |-> invoked, promote |-> h.promote,
     cancelID |-> h.cancelID, panics |-> h.panics]
NoCall == HRes(Nil, NoError, FALSE, 0, FALSE)
Panic == HRes(Nil, NoError, FALSE, 0, TRUE)

\* server.go:152-229: the (a, err) pair from the method's outputs.
Outcome(m, h) ==
    IF h.panics THEN XRes(Nil, NoError, TRUE, h)
    ELSE IF m.numOut = 0 THEN XRes(Nil, NoError, TRUE, h)
    ELSE IF m.numOut = 1
         THEN IF m.out0IsError THEN XRes(Nil, h.err, TRUE, h)
              ELSE XRes(h.val, NoError, TRUE, h)
    ELSE XRes(h.val, h.err, TRUE, h)

\* Server.execute (server.go:103-232).
execute(typ, name, arg) ==
    IF typ \notin DOMAIN rcvrs THEN XRes(Nil, ErrNoSuchReceiver, FALSE, NoCall)
    ELSE IF name \notin DOMAIN rcvrs[typ] THEN XRes(Nil, ErrNoSuchMethod, FALSE, NoCall)
    ELSE LET m == rcvrs[typ][name] IN
         IF ~mtdValid(m) THEN XRes(Nil, ErrInvalidMethod, FALSE, NoCall)
         ELSE IF m.numIn = 1 /\ arg.k # "nil"
              THEN XRes(Nil, ErrUnexpectedArgument, FALSE, NoCall)
         ELSE LET c == Coerce(arg, m.argType) IN
              IF c.st = "panic" THEN XRes(Nil, NoError, FALSE, Panic)
              ELSE IF c.st = "err" THEN XRes(Nil, ErrCannotConvert, FALSE, NoCall)
              \* mtd.Call with reflect.ValueOf(nil): a zero Value argument
              ELSE IF m.numIn = 2 /\ c.val.k = "nil" THEN XRes(Nil, NoError, FALSE, Panic)
              ELSE Outcome(m, Invoke(typ, name, c.val))


\* ------------------------------------------------------------- wire records
\* types.Request and types.Response.
Request(id, rcvr, method, arg) ==
    [id |-> id, rcvr |-> rcvr, method |-> method, arg |-> arg]
Response(type, id, error, ret) ==
    [type |-> type, id |-> id, error |-> error, ret |-> ret]
NoResp == Response("none", 0, NoError, Nil)
\* The end of a stream: what every Decode finds once the peer has closed
\* the stream or Client.Close has closed it (io.EOF, or the error of a
\* read on a closed connection).
EOF == Response("EOF", 0, NoError, Nil)
\* What a Decode makes of bytes that two overlapping Encodes wrote to the
\* stream: no record.  The peer's Decode fails with an error other than
\* io.EOF, having decoded no ID.
Garbled == Response("garbled", 0, NoError, Nil)
\* The same on the request stream: what the server's Decode finds at the
\* end of the stream (io.EOF), and bytes that are no request record, of
\* which Decode may have filled in an ID before it failed (0: none).
EndOfStream == Request(0, "io.EOF", "", Nil)
Malformed(id) == Request(id, "malformed", "", Nil)
ErrDecode == "decode error"

\* What the codec's Encode followed by the peer's Decode into `any` makes of
\* a Go value: an array or slice arrives as a []any of numbers, scalars and
\* strings arrive as they are.
WireOf(a) ==
    IF a.k \in {"arr", "slice"}
    THEN SeqV([i \in 1 .. Len(a.v) |-> IntV(a.v[i])])
    ELSE a

\* server.go:319-322, the response of a call that returned a value.
NormalResponse(id, val) == Response("Normal", id, NoError, WireOf(val))
\* server.go:325-329, the response of a promoted call.
ChannelResponse(id, chID) == Response("Channel", id, NoError, IdV(chID))
\* server.go:373-381, sendErr.
ErrorResponse(id, err, val) == Response("Error", id, err, WireOf(val))
\* server.go:341-344, a pushed value.
PushResponse(chID, val) == Response("Normal", chID, NoError, WireOf(val))
\* server.go:356-359
ChannelDoneResponse(chID) == Response("ChannelDone", chID, NoError, Nil)

\* ------------------------------------------------------------------- plans
\* What the user passes to Client.Call: receiver, method, argument and the
\* kind of returnSink ("ptr": *int, "chan": a channel, "nil": nil).
Plan(rcvr, method, arg, ret) ==
    [rcvr |-> rcvr, method |-> method, arg |-> arg, ret |-> ret]
ArrV(a, b) == [k |-> "arr", v |-> <<a, b>>]
\* a []int
SliceV(s) == [k |-> "slice", v |-> s]
NoPlan == Plan("", "", Nil, "nil")

\* Arith of [5,5] by each method, and Add of a second argument
ArithPlans ==
    {Plan("Arith", m, ArrV(5, 5), "ptr") : m \in {"Add", "Sub", "Mul", "Div"}}
        \cup {Plan("Arith", "Add", ArrV(2, 2), "ptr")}
\* unknown receiver, unknown method, invalid shapes, unexpected argument
FailingPlans ==
    {Plan("Nope", "Add", ArrV(5, 5), "ptr"),
     Plan("Arith", "Nope", ArrV(5, 5), "ptr"),
     Plan("Bad", "NoInput", Nil, "ptr"),
     Plan("Bad", "TooManyIn", IntV(1), "ptr"),
     Plan("Bad", "TooManyOut", IntV(1), "ptr"),
     Plan("Bad", "NoContext", Nil, "ptr"),
     Plan("Bad", "SecondNotError", IntV(1), "ptr"),
     Plan("lrpc", "IntrospectAll", IntV(1), "ptr")}
\* a handler that returns a non-nil error
ErrorPlans == {Plan("lrpc", "Introspect", StrV("Nope"), "ptr")}
ChannelPlans == {Plan("Channel", "Time", IntV(1), "chan")}


\* ---------------------------------------------------------------- Register
ErrInvalidType == "type must be struct or pointer to struct"

\* A value handed to Register as reflect sees it: its Kind, for a pointer
\* what it points to ("struct", "int", or "nil" for a nil pointer), and
\* the name of its type (of the pointed-to type for a pointer).
RegValue(kind, elem, name) == [kind |-> kind, elem |-> elem, name |-> name]
NoValue == RegValue("none", "none", "")

\* Arith{}, &Arith{}, Channel{}, &Channel{}, new(int), (*Arith)(nil), 5,
\* a func, nil.
RegValues ==
    {RegValue("struct", "none", "Arith"), RegValue("ptr", "struct", "Arith"),
     RegValue("struct", "none", "Channel"), RegValue("ptr", "struct", "Channel"),
     RegValue("ptr", "int", "int"), RegValue("ptr", "nil", "Arith"),
     RegValue("int", "none", "int"), RegValue("func", "none", ""),
     RegValue("invalid", "none", "")}

\* New (server.go:56-67): an empty registry, then Register(lrpc{out}).
RegInit ==
    [rcvrs |-> ("lrpc" :> RegValue("struct", "none", "lrpc")),
     arg |-> NoValue, ret |-> "none", prev |-> << >>]

\* ------------------------------------------------------------------- Serve
\* Serve has been called: the closer goroutine waits for ctx.Done(), the
\* loop is in ln.Accept(); no connection accepted, no Accept error yet.
LsnInit ==
    [closed |-> FALSE, closer |-> "wait", loop |-> "accept", conns |-> 0,
     errs |-> 0]

\* ----------------------------------------------------------------- Context
ContextCanceled == "context canceled"

\* Who calls Cancel on the Context of a promoted call: lrpc.ChannelDone
\* and the channel's forwarder.
Cancellers == {"ChannelDone", "forwarder"}

\* A Context as execute makes it: doneCh open, canceled false.  cancel is
\* where each caller of Cancel stands; obs is what observers have seen.
CtxInit ==
    [canceled |-> FALSE, closed |-> FALSE, panic |-> "none",
     cancel |-> [k \in Cancellers |-> "idle"], obs |-> << >>]

\* A Context whose Err never reports the cancellation.
ErrAlwaysNil(c) == NoError

\* Context.Err (context.go:126)
Err(c) == IF c.canceled THEN ContextCanceled ELSE NoError

\* Context.Done (context.go:136): whether a receive from the returned
\* channel is ready.
Done(c) == c.closed

\* Context.Deadline (context.go:115): (time.Now(), false).
Deadline(c) == [ok |-> FALSE]

\* Context.Value (context.go:120)
Value(c, key) == Nil

\* A Cancel has been called / is between its two statements / has returned.
CancelBegun(c) == \E k \in Cancellers : c.cancel[k] # "idle"
CancelInProgress(c) == \E k \in Cancellers : c.cancel[k] = "set"
CancelReturned(c) == \E k \in Cancellers : c.cancel[k] = "done"

\* ------------------------------------------------------------------- state
VARIABLES
    calls,      \* client: each user Call: pc, plan, response, error, *ret
    cctx,       \* client: whether the ctx given to each Call is cancelled
    chs,        \* client: keys of Client.chs, the call-site map
    slot,       \* client: buffer of the channel made for each key
    closedCh,   \* client: keys whose channel has been closed
    rd,         \* client: handleConn, the reader loop
    cfw,        \* client: the forwarder goroutine of each channel Call
    sink,       \* client: the user's channel given as returnSink
    got,        \* client: what the user has received from that channel
    cpanic,     \* client: "none", or the panic that ended the process
    c2s,        \* stream: requests written by the client, not yet decoded
    s2c,        \* stream: responses written by the server, not yet decoded
    srv,        \* server: handleConn, the session loop
    contexts,   \* server: keys of Server.contexts, the active-channel map
    sctx,       \* server: the Context of each promoted call
    sfw,        \* server: the forwarder goroutine of each promoted call
    pctx,       \* server: whether the context given to ServeConn is cancelled
    spanic,     \* server: "none", or the panic that ended the process
    wlog,       \* history: every response the server has written, in order
    hlog,       \* history: every method the server has called, in order
    reg,        \* host: Server.rcvrs and the last Register made on it
    lsn,        \* host: Serve: the listener, the closer and the accept loop
    uctx        \* host: a handler's Context, its cancellers and observers

vars == <<calls, cctx, chs, slot, closedCh, rd, cfw, sink, got, cpanic, c2s,
          s2c, srv, contexts, sctx, sfw, pctx, spanic, wlog, hlog, reg, lsn,
          uctx>>
clientVars == <<calls, cctx, chs, slot, closedCh, rd, cfw, sink, got, cpanic>>
serverVars == <<srv, contexts, sctx, sfw, pctx, spanic, wlog, hlog>>
\* What lives outside a session: the registry, the listener, one Context.
hostVars == <<reg, lsn, uctx>>

Init ==
    /\ calls = [p \in Callers |->
                  [pc |-> "idle", plan |-> NoPlan, resp |-> NoResp,
                   err |-> NoError, out |-> Nil]]
    /\ cctx = [p \in Callers |-> FALSE]
    /\ chs = {}
    /\ slot = <<>>
    /\ closedCh = {}
    /\ rd = [pc |-> "decode", resp |-> NoResp]
    /\ cfw = [p \in Callers |-> [pc |-> "none", ch |-> 0, val |-> Nil, k |-> 0]]
    /\ sink = [p \in Callers |-> [buf |-> <<>>, closed |-> FALSE]]
    /\ got = [p \in Callers |-> <<>>]
    /\ cpanic = "none"
    /\ c2s = <<>>
    /\ s2c = <<>>
    /\ srv = [pc |-> "decode", res |-> NoResp, via |-> "none"]
    /\ contexts = {}
    /\ sctx = [p \in Callers |->
                 [made |-> FALSE, queue |-> <<>>, closed |-> FALSE,
                  canceled |-> FALSE, pushed |-> 0]]
    /\ sfw = [p \in Callers |-> [pc |-> "none", val |-> Nil]]
    /\ pctx = FALSE
    /\ spanic = "none"
    /\ wlog = <<>>
    /\ hlog = <<>>
    /\ reg = RegInit
    /\ lsn = LsnInit
    /\ uctx = CtxInit

\* cap() of the channel made under a key of the call-site map.
CapOf(id) == IF IsChanID(id) THEN ChanCap ELSE SlotCap

\* ------------------------------------------------------------ client: Call
\* client.go:69-93: mint the ID, make the single-shot channel, encode the
\* request.  IDs are minted in the order the Calls start.
CallStart(p, plan) ==
    /\ cpanic = "none"
    /\ calls[p].pc = "idle"
    /\ \A q \in Callers : q < p => calls[q].pc # "idle"
    /\ calls' = [calls EXCEPT ![p].pc = "wait", ![p].plan = plan]
    /\ chs' = chs \cup {CallID(p)}
    /\ slot' = (CallID(p) :> <<>>) @@ slot
    /\ c2s' = Append(c2s, Request(CallID(p), plan.rcvr, plan.method, WireOf(plan.arg)))
    /\ UNCHANGED <<cctx, closedCh, rd, cfw, sink, got, cpanic, s2c>>
    /\ UNCHANGED serverVars
    /\ UNCHANGED hostVars

\* client.go:107-124 and 180-203: what Call makes of the response.
\* pc "register" means the channel sink is still to be installed.
\* A Call that takes an Error response for a response without a value.
CallOutcomeIgnoreError(c, resp) == [c EXCEPT !.pc = "done", !.resp = resp]

\* A Call that takes a channel response whatever returnSink is.
CallOutcomeAnyChannelSink(c, resp) ==
    IF resp.type = "Error"
    THEN [c EXCEPT !.pc = "done", !.resp = resp, !.err = resp.error]
    ELSE IF resp.ret.k = "nil"
    THEN [c EXCEPT !.pc = "done", !.resp = resp]
    ELSE IF resp.type = "Channel"
    THEN [c EXCEPT !.pc = "done", !.resp = resp]
    ELSE IF c.plan.ret # "ptr"
    THEN [c EXCEPT !.pc = "done", !.resp = resp, !.err = ErrReturnNotPointer]
    ELSE [c EXCEPT !.pc = "done", !.resp = resp, !.out = Convert(resp.ret, "int").val]

\* A Call that stores the returned value whatever returnSink is.
CallOutcomeAnyValueSink(c, resp) ==
    IF resp.type = "Error"
    THEN [c EXCEPT !.pc = "done", !.resp = resp, !.err = resp.error]
    ELSE IF resp.ret.k = "nil"
    THEN [c EXCEPT !.pc = "done", !.resp = resp]
    ELSE IF resp.type = "Channel"
    THEN [c EXCEPT !.pc = "done", !.resp = resp, !.err = ErrReturnNotChannel]
    ELSE [c EXCEPT !.pc = "done", !.resp = resp, !.out = Convert(resp.ret, "int").val]

CallOutcome(c, resp) ==
    IF resp.type = "Error"
    THEN [c EXCEPT !.pc = "done", !.resp = resp, !.err = resp.error]
    ELSE IF resp.ret.k = "nil"
    THEN [c EXCEPT !.pc = "done", !.resp = resp]
    ELSE IF resp.type = "Channel"
    THEN IF c.plan.ret # "chan"
         THEN [c EXCEPT !.pc = "done", !.resp = resp, !.err = ErrReturnNotChannel]
         ELSE [c EXCEPT !.pc = "register", !.resp = resp]
    ELSE IF c.plan.ret # "ptr"
    THEN [c EXCEPT !.pc = "done", !.resp = resp, !.err = ErrReturnNotPointer]
    ELSE LET cv == Convert(resp.ret, "int") IN
         IF cv.st = "ok"
         THEN [c EXCEPT !.pc = "done", !.resp = resp, !.out = cv.val]
         ELSE [c EXCEPT !.pc = "done", !.resp = resp, !.err = ErrCannotConvert]

\* A Call that closes its single-shot channel and leaves it in the map.
CallRecvKeepsEntry(p) ==
    /\ cpanic = "none"
    /\ calls[p].pc = "wait"
    /\ slot[CallID(p)] # <<>>
    /\ calls' = [calls EXCEPT ![p] = CallOutcome(calls[p], Head(slot[CallID(p)]))]
    /\ slot' = [slot EXCEPT ![CallID(p)] = Tail(@)]
    /\ closedCh' = closedCh \cup {CallID(p)}
    /\ UNCHANGED <<cctx, chs, rd, cfw, sink, got, cpanic, c2s, s2c>>
    /\ UNCHANGED serverVars
    /\ UNCHANGED hostVars

\* client.go:95-105: block on the single-shot channel (ctx is not looked
\* at), then close it and delete the entry.
CallRecv(p) ==
    /\ cpanic = "none"
    /\ calls[p].pc = "wait"
    /\ slot[CallID(p)] # <<>>
    /\ calls' = [calls EXCEPT ![p] = CallOutcome(calls[p], Head(slot[CallID(p)]))]
    /\ slot' = [slot EXCEPT ![CallID(p)] = Tail(@)]
    /\ closedCh' = closedCh \cup {CallID(p)}
    /\ chs' = chs \ {CallID(p)}
    /\ UNCHANGED <<cctx, rd, cfw, sink, got, cpanic, c2s, s2c>>
    /\ UNCHANGED serverVars
    /\ UNCHANGED hostVars

\* client.go:126-134: store a new channel under the channel ID, start the
\* forwarder goroutine, return nil.
CallRegister(p) ==
    /\ cpanic = "none"
    /\ calls[p].pc = "register"
    /\ LET ch == calls[p].resp.ret.v IN
        /\ chs' = chs \cup {ch}
        /\ slot' = (ch :> <<>>) @@ slot
        /\ closedCh' = closedCh \ {ch}
        /\ cfw' = [cfw EXCEPT ![p] = [pc |-> "start", ch |-> ch, val |-> Nil, k |-> 0]]
    /\ calls' = [calls EXCEPT ![p].pc = "done"]
    /\ UNCHANGED <<cctx, rd, sink, got, cpanic, c2s, s2c>>
    /\ UNCHANGED serverVars
    /\ UNCHANGED hostVars

\* The user cancels the ctx it gave to Call.
CancelCall(p) ==
    /\ cpanic = "none"
    /\ calls[p].pc # "idle"
    /\ ~cctx[p]
    /\ cctx' = [cctx EXCEPT ![p] = TRUE]
    /\ UNCHANGED <<calls, chs, slot, closedCh, rd, cfw, sink, got, cpanic, c2s, s2c>>
    /\ UNCHANGED serverVars
    /\ UNCHANGED hostVars

\* ------------------------------------------------- the request stream
\* The client has closed the stream (Client.Close, client.go:232), or the
\* peer has gone: the server's Decode finds io.EOF after what was written.
RequestsEnded == \E i \in 1 .. Len(c2s) : c2s[i] = EndOfStream

CloseStream ==
    /\ cpanic = "none"
    /\ ~RequestsEnded
    /\ c2s' = Append(c2s, EndOfStream)
    /\ UNCHANGED <<calls, cctx, chs, slot, closedCh, rd, cfw, sink, got, cpanic, s2c>>
    /\ UNCHANGED serverVars
    /\ UNCHANGED hostVars

\* A Call made while the request stream is open.
CallBeforeClose(p, plan) ==
    /\ ~RequestsEnded
    /\ CallStart(p, plan)

\* A Call whose request reaches the server as bytes that are no request
\* record (written next to another Encode, damaged on the way, or sent by
\* a peer that is not this client): Decode fails after it has decoded the
\* ID (idOk) or before.
CallDamaged(p, plan, idOk) ==
    /\ cpanic = "none"
    /\ ~RequestsEnded
    /\ calls[p].pc = "idle"
    /\ \A q \in Callers : q < p => calls[q].pc # "idle"
    /\ calls' = [calls EXCEPT ![p].pc = "wait", ![p].plan = plan]
    /\ chs' = chs \cup {CallID(p)}
    /\ slot' = (CallID(p) :> <<>>) @@ slot
    /\ c2s' = Append(c2s, Malformed(IF idOk THEN CallID(p) ELSE 0))
    /\ UNCHANGED <<cctx, closedCh, rd, cfw, sink, got, cpanic, s2c>>
    /\ UNCHANGED serverVars
    /\ UNCHANGED hostVars

\* A Go channel given as the argument of a Call: a value no codec encodes.
ChanV == [k |-> "chan", v |-> 0]
\* Whether the codec's Encode of a request holding the argument succeeds.
Encodable(a) == a.k # "chan"
ErrEncode == "encode error"

\* client.go:79-93: a Call whose Encode returns an error, because the
\* codec cannot encode the argument or because the stream is closed.  The
\* single-shot channel has been stored; Call returns the error.
CallEncodeFail(p, plan) ==
    /\ cpanic = "none"
    /\ calls[p].pc = "idle"
    /\ \A q \in Callers : q < p => calls[q].pc # "idle"
    /\ ~Encodable(plan.arg) \/ RequestsEnded
    /\ calls' = [calls EXCEPT ![p].pc = "done", ![p].plan = plan,
                              ![p].err = ErrEncode]
    /\ chs' = chs \cup {CallID(p)}
    /\ slot' = (CallID(p) :> <<>>) @@ slot
    /\ UNCHANGED <<cctx, closedCh, rd, cfw, sink, got, cpanic, c2s, s2c>>
    /\ UNCHANGED serverVars
    /\ UNCHANGED hostVars

\* A Call whose Encode succeeds.
CallEncoded(p, plan) ==
    /\ Encodable(plan.arg)
    /\ CallBeforeClose(p, plan)

\* ----------------------------------------------------- client: handleConn
\* client.go:210-224: decode a response and look its ID up; a response
\* whose ID is not in the map is skipped.
ReaderLookup(id) == id \in chs

\* A handleConn that hands a response to the call-site channel stored
\* last, not to the one stored under the response's ID.
ReaderTargetAny(id) ==
    IF chs = {} THEN id ELSE CHOOSE c \in chs : \A d \in chs : d <= c
\* client.go:219 and 227: the channel stored under the response's ID.
ReaderTarget(id) == id

\* A handleConn that makes an entry for a response whose ID it does not
\* find, and delivers the response to it.
ReaderDecodeImplicitEntry ==
    /\ cpanic = "none"
    /\ rd.pc = "decode"
    /\ s2c # <<>>
    /\ Head(s2c) # EOF
    /\ s2c' = Tail(s2c)
    /\ rd' = [pc |-> "deliver", resp |-> Head(s2c)]
    /\ chs' = chs \cup {Head(s2c).id}
    /\ slot' = IF ReaderLookup(Head(s2c).id) THEN slot
               ELSE (Head(s2c).id :> <<>>) @@ slot
    /\ UNCHANGED <<calls, cctx, closedCh, cfw, sink, got, cpanic, c2s>>
    /\ UNCHANGED serverVars
    /\ UNCHANGED hostVars

ReaderDecode ==
    /\ cpanic = "none"
    /\ rd.pc = "decode"
    /\ s2c # <<>>
    /\ IF Head(s2c) = EOF
       THEN \* client.go:212-215: Decode returns an error: continue
            UNCHANGED <<s2c, rd>>
       ELSE /\ s2c' = Tail(s2c)
            /\ rd' = IF ReaderLookup(Head(s2c).id)
                     THEN [pc |-> "deliver", resp |-> Head(s2c)]
                     ELSE rd
    /\ UNCHANGED <<calls, cctx, chs, slot, closedCh, cfw, sink, got, cpanic, c2s>>
    /\ UNCHANGED serverVars
    /\ UNCHANGED hostVars

\* Client.Close (client.go:232-234) closes the stream, or the peer does:
\* what the server has written is still read, then comes the end of the
\* stream; what the server writes from now on is lost.
StreamEnded == \E i \in 1 .. Len(s2c) : s2c[i] = EOF

StreamEnd ==
    /\ cpanic = "none"
    /\ ~StreamEnded
    /\ s2c' = Append(s2c, EOF)
    /\ UNCHANGED <<calls, cctx, chs, slot, closedCh, rd, cfw, sink, got, cpanic, c2s>>
    /\ UNCHANGED serverVars
    /\ UNCHANGED hostVars

\* A Call made while the stream is open.
CallOnOpenStream(p, plan) ==
    /\ ~StreamEnded
    /\ CallStart(p, plan)

\* client.go:227: ch <- resp.  Blocks while the buffer is full; panics on a
\* channel closed since the lookup.
ReaderDeliver ==
    /\ cpanic = "none"
    /\ rd.pc = "deliver"
    /\ LET ch == ReaderTarget(rd.resp.id) IN
        IF ch \in closedCh
        THEN /\ cpanic' = "send on closed channel"
             /\ UNCHANGED <<slot, rd>>
        ELSE /\ Len(slot[ch]) < CapOf(ch)
             /\ slot' = [slot EXCEPT ![ch] = Append(@, rd.resp)]
             /\ rd' = [pc |-> "decode", resp |-> NoResp]
             /\ UNCHANGED cpanic
    /\ UNCHANGED <<calls, cctx, chs, closedCh, cfw, sink, got, c2s, s2c>>
    /\ UNCHANGED serverVars
    /\ UNCHANGED hostVars


\* ------------------------------------------- client: the channel forwarder
\* close(c.chs[chID]); delete(c.chs, chID); retVal.Close()
\* (client.go:142-148 and 171-176).  The channel is looked up in the map
\* again: a missing key gives a nil channel, and closing a nil or closed
\* channel panics, as does closing the user's channel twice.
CloseSink(p, ch) ==
    IF ch \notin chs
    THEN /\ cpanic' = "close of nil channel"
         /\ UNCHANGED <<chs, sink>>
         /\ closedCh' = closedCh
    ELSE IF sink[p].closed
    THEN /\ cpanic' = "close of closed channel"
         /\ UNCHANGED <<chs, sink>>
         /\ closedCh' = closedCh
    ELSE /\ chs' = chs \ {ch}
         /\ closedCh' = closedCh \cup {ch}
         /\ sink' = [sink EXCEPT ![p].closed = TRUE]
         /\ UNCHANGED cpanic

\* Another goroutine is about to write Client.chs under chMtx: a Call
\* about to store its channel (client.go:80-82), to delete it
\* (client.go:102-105) or to store a channel sink (client.go:130-132), or
\* a forwarder about to delete after its ChannelDone Call
\* (client.go:171-174).
ChsWriterReady(p) ==
    \E q \in Callers \ {p} :
        \/ calls[q].pc = "idle" /\ \A r \in Callers : r < q => calls[r].pc # "idle"
        \/ calls[q].pc = "wait" /\ slot[CallID(q)] # <<>>
        \/ calls[q].pc = "register"
        \/ cfw[q].pc = "cdwait" /\ slot[CdID(q, cfw[q].k)] # <<>>

\* client.go:138: the forwarder evaluates c.chs[chID] once, without
\* chMtx.  Read while another goroutine writes the map, the Go runtime
\* may stop the process ("concurrent map read and map write"); otherwise
\* the forwarder ranges over the channel it found.
CFwdStart(p) ==
    /\ cpanic = "none"
    /\ cfw[p].pc = "start"
    /\ \/ /\ cfw' = [cfw EXCEPT ![p].pc = "range"]
          /\ UNCHANGED cpanic
       \/ /\ ChsWriterReady(p)
          /\ cpanic' = "concurrent map read and map write"
          /\ UNCHANGED cfw
    /\ UNCHANGED <<calls, cctx, chs, slot, closedCh, rd, sink, got, c2s, s2c>>
    /\ UNCHANGED serverVars
    /\ UNCHANGED hostVars

\* client.go:138-150: for val := range c.chs[chID].  The channel ranged
\* over is the one found when the loop started.  A ChannelDone response
\* closes everything and ends the loop; a value goes on to the select; a
\* closed and drained channel ends the loop.
CFwdRecv(p) ==
    /\ cpanic = "none"
    /\ cfw[p].pc = "range"
    /\ LET ch == cfw[p].ch IN
        IF slot[ch] # <<>>
        THEN LET val == Head(slot[ch]) IN
             IF val.type = "ChannelDone"
             THEN /\ CloseSink(p, ch)
                  /\ slot' = [slot EXCEPT ![ch] = Tail(@)]
                  /\ cfw' = [cfw EXCEPT ![p].pc = "exited"]
             ELSE /\ slot' = [slot EXCEPT ![ch] = Tail(@)]
                  /\ cfw' = [cfw EXCEPT ![p].pc = "select", ![p].val = val.ret]
                  /\ UNCHANGED <<chs, closedCh, sink, cpanic>>
        ELSE /\ ch \in closedCh
             /\ cfw' = [cfw EXCEPT ![p].pc = "exited"]
             /\ UNCHANGED <<chs, slot, closedCh, sink, cpanic>>
    /\ UNCHANGED <<calls, cctx, rd, got, c2s, s2c>>
    /\ UNCHANGED serverVars
    /\ UNCHANGED hostVars

\* client.go:164-167, case 0 of the select: send the value to the user's
\* channel.  Sending on the closed channel panics.
CFwdSend(p) ==
    /\ cpanic = "none"
    /\ cfw[p].pc = "select"
    /\ IF sink[p].closed
       THEN /\ cpanic' = "send on closed channel"
            /\ UNCHANGED <<sink, cfw>>
       ELSE /\ Len(sink[p].buf) < SinkCap
            /\ sink' = [sink EXCEPT ![p].buf = Append(@, cfw[p].val)]
            /\ cfw' = [cfw EXCEPT ![p].pc = "range", ![p].val = Nil]
            /\ UNCHANGED cpanic
    /\ UNCHANGED <<calls, cctx, chs, slot, closedCh, rd, got, c2s, s2c>>
    /\ UNCHANGED serverVars
    /\ UNCHANGED hostVars

\* client.go:166-169, case 1 of the select: ctx is done; start
\* c.Call(context.Background(), "lrpc", "ChannelDone", chID, nil).
CFwdCancel(p) ==
    /\ cpanic = "none"
    /\ cfw[p].pc = "select"
    /\ cctx[p]
    /\ LET id == CdID(p, cfw[p].k) IN
        /\ chs' = chs \cup {id}
        /\ slot' = (id :> <<>>) @@ slot
        /\ c2s' = Append(c2s, Request(id, "lrpc", "ChannelDone", IdV(cfw[p].ch)))
    /\ cfw' = [cfw EXCEPT ![p].pc = "cdwait", ![p].val = Nil]
    /\ UNCHANGED <<calls, cctx, closedCh, rd, sink, got, cpanic, s2c>>
    /\ UNCHANGED serverVars
    /\ UNCHANGED hostVars

\* client.go:169-177: the ChannelDone Call returns (its result is ignored);
\* close and delete the channel, close the user's channel, and go on
\* ranging over the channel just closed.
CFwdCdRecv(p) ==
    /\ cpanic = "none"
    /\ cfw[p].pc = "cdwait"
    /\ LET id == CdID(p, cfw[p].k) ch == cfw[p].ch IN
        /\ slot[id] # <<>>
        /\ slot' = [slot EXCEPT ![id] = Tail(@)]
        /\ IF ch \notin chs
           THEN /\ cpanic' = "close of nil channel"
                /\ chs' = chs \ {id}
                /\ closedCh' = closedCh \cup {id}
                /\ UNCHANGED sink
           ELSE IF sink[p].closed
           THEN /\ cpanic' = "close of closed channel"
                /\ chs' = chs \ {id}
                /\ closedCh' = closedCh \cup {id}
                /\ UNCHANGED sink
           ELSE /\ chs' = chs \ {id, ch}
                /\ closedCh' = closedCh \cup {id, ch}
                /\ sink' = [sink EXCEPT ![p].closed = TRUE]
                /\ UNCHANGED cpanic
    /\ cfw' = [cfw EXCEPT ![p].pc = "range", ![p].k = @ + 1]
    /\ UNCHANGED <<calls, cctx, rd, got, c2s, s2c>>
    /\ UNCHANGED serverVars
    /\ UNCHANGED hostVars

\* The user receives from the channel it gave as returnSink
\* (lrpc_test.go:325).
ConsumerRecv(p) ==
    /\ cpanic = "none"
    /\ sink[p].buf # <<>>
    /\ got' = [got EXCEPT ![p] = Append(@, Head(sink[p].buf))]
    /\ sink' = [sink EXCEPT ![p].buf = Tail(@)]
    /\ UNCHANGED <<calls, cctx, chs, slot, closedCh, rd, cfw, cpanic, c2s, s2c>>
    /\ UNCHANGED serverVars
    /\ UNCHANGED hostVars


\* ----------------------------------------------------- server: handleConn
\* Done() of the Context of caller p's promoted call is ready: the context
\* was cancelled, or the context given to ServeConn, its parent, was.
CtxDone(p) == sctx[p].canceled \/ pctx

\* server.go:315-334: the response handleConn builds from what execute
\* returned (a promoted call answers with its channel ID).
\* A session loop that answers whatever execute returned with a Normal
\* response.
InitialResponseAlwaysNormal(id, x) == NormalResponse(id, x.val)

\* A session loop that keeps the handler's value in a channel response.
InitialResponseKeepsValue(id, x) ==
    IF x.err # NoError THEN ErrorResponse(id, x.err, x.val)
    ELSE IF x.promote THEN Response("Channel", id, NoError, WireOf(x.val))
    ELSE NormalResponse(id, x.val)

InitialResponse(id, x) ==
    IF x.err # NoError THEN ErrorResponse(id, x.err, x.val)
    ELSE IF x.promote THEN ChannelResponse(id, ChanID(id))
    ELSE NormalResponse(id, x.val)

\* A session loop that any Decode error ends.
AfterDecodeErrorBreaks(call) == [pc |-> "exited", res |-> NoResp, via |-> "none"]

\* server.go:302-305: Decode failed with an error other than io.EOF, having
\* filled in of `call` what it decoded: s.sendErr(c, call, nil, err).
AfterDecodeError(call) ==
    [pc |-> "respond", res |-> ErrorResponse(call.id, ErrDecode, Nil),
     via |-> "sendErr"]

\* A forwarder is about to delete from Server.contexts under contextsMtx
\* (server.go:350-353) while lrpc.ChannelDone looks the map up without it
\* (server.go:391).
ContextsWriterReady == \E q \in Callers : sfw[q].pc = "cancel"

\* server.go:296-362 up to the encode: decode a request (io.EOF ends the
\* loop, any other Decode error is answered by sendErr), execute it (the
\* method runs inside the loop: srv.pc is "handler" while a method that
\* suspends has not returned from mtd.Call), and for a promoted call store
\* the context and start the forwarder.  MakeChannel (context.go:99) and the producer
\* goroutine of Channel.Time start with the method.  lrpc.ChannelDone's
\* lookup, made while a forwarder writes the map, may stop the process
\* ("concurrent map read and map write").
ServerDecode ==
    /\ spanic = "none"
    /\ srv.pc = "decode"
    /\ c2s # <<>>
    /\ IF Head(c2s) = EndOfStream
       THEN \* server.go:299-301: Decode returns io.EOF: break
            /\ srv' = [srv EXCEPT !.pc = "exited"]
            /\ UNCHANGED <<c2s, contexts, sctx, sfw, spanic, hlog>>
       ELSE IF Head(c2s).rcvr = "malformed"
       THEN \* server.go:302-305: any other error: sendErr(c, call, nil, err)
            \* and continue
            /\ c2s' = Tail(c2s)
            /\ srv' = AfterDecodeError(Head(c2s))
            /\ UNCHANGED <<contexts, sctx, sfw, spanic, hlog>>
       ELSE
       LET req == Head(c2s)
           x == execute(req.rcvr, req.method, req.arg)
           gone == IF x.invoked /\ req.rcvr = "lrpc" /\ req.method = "ChannelDone"
                   THEN LrpcChannelDone(x.cancelID, contexts)
                   ELSE {}
           promoted == x.promote /\ x.err = NoError
       IN
        /\ c2s' = Tail(c2s)
        /\ \/ /\ x.invoked /\ req.rcvr = "lrpc" /\ req.method = "ChannelDone"
              /\ ContextsWriterReady
              /\ spanic' = "concurrent map read and map write"
              /\ UNCHANGED <<srv, contexts, sctx, sfw, hlog>>
           \/ /\ x.panics
              /\ spanic' = "panic"
              /\ UNCHANGED <<srv, contexts, sctx, sfw, hlog>>
           \/ /\ ~x.panics
              /\ UNCHANGED spanic
              /\ hlog' = IF x.invoked
                         THEN Append(hlog, [id |-> req.id, rcvr |-> req.rcvr,
                                            method |-> req.method])
                         ELSE hlog
              /\ sctx' = [p \in Callers |->
                            IF ChanID(p) \in gone
                            THEN [sctx[p] EXCEPT !.canceled = TRUE]
                            ELSE IF x.promote /\ p = req.id
                            THEN [sctx[p] EXCEPT !.made = TRUE]
                            ELSE sctx[p]]
              /\ contexts' = IF promoted
                             THEN (contexts \ gone) \cup {ChanID(req.id)}
                             ELSE contexts \ gone
              /\ sfw' = IF promoted
                        THEN [sfw EXCEPT ![req.id].pc = "range"]
                        ELSE sfw
              /\ srv' = [pc |-> IF x.invoked /\ Suspends(req.rcvr, req.method)
                                THEN "handler" ELSE "respond",
                         res |-> InitialResponse(req.id, x),
                         via |-> IF x.err # NoError THEN "sendErr" ELSE "encode"]
    /\ UNCHANGED <<s2c, pctx, wlog>>
    /\ UNCHANGED clientVars
    /\ UNCHANGED hostVars

\* A session loop that goes back to Decode when the method returns and
\* leaves the response unwritten.
HandlerReturnUnanswered ==
    /\ spanic = "none"
    /\ srv.pc = "handler"
    /\ srv' = [pc |-> "decode", res |-> NoResp, via |-> "none"]
    /\ UNCHANGED <<c2s, s2c, contexts, sctx, sfw, pctx, spanic, wlog, hlog>>
    /\ UNCHANGED clientVars
    /\ UNCHANGED hostVars

\* The ID of a request made on another session of the same Server.
PeerID == 300

\* server.go:249 and 389-402: the session loop of another connection,
\* which Serve has started on the same Server, decodes an
\* lrpc.ChannelDone request and runs it.  Server.contexts belongs to the
\* Server: the lookup finds the context whatever session has stored it,
\* cancels it and deletes the entry.  The lookup is unlocked here too.
\* The response is written to the other connection.
PeerChannelDone(id) ==
    /\ spanic = "none"
    /\ \A i \in 1 .. Len(hlog) : hlog[i].id # PeerID
    /\ \/ /\ ContextsWriterReady
          /\ spanic' = "concurrent map read and map write"
          /\ UNCHANGED <<contexts, sctx, hlog>>
       \/ /\ UNCHANGED spanic
          /\ hlog' = Append(hlog, [id |-> PeerID, rcvr |-> "lrpc",
                                   method |-> "ChannelDone"])
          /\ sctx' = [p \in Callers |->
                        IF ChanID(p) \in LrpcChannelDone(id, contexts)
                        THEN [sctx[p] EXCEPT !.canceled = TRUE]
                        ELSE sctx[p]]
          /\ contexts' = contexts \ LrpcChannelDone(id, contexts)
    /\ UNCHANGED <<c2s, s2c, srv, sfw, pctx, wlog>>
    /\ UNCHANGED clientVars
    /\ UNCHANGED hostVars

\* The suspended method resumes and returns: s.execute returns to
\* handleConn (server.go:309-315).
HandlerReturn ==
    /\ spanic = "none"
    /\ srv.pc = "handler"
    /\ srv' = [srv EXCEPT !.pc = "respond"]
    /\ UNCHANGED <<c2s, s2c, contexts, sctx, sfw, pctx, spanic, wlog, hlog>>
    /\ UNCHANGED clientVars
    /\ UNCHANGED hostVars

\* server.go:316 (sendErr) and 364-367: write the response.
ServerRespond ==
    /\ spanic = "none"
    /\ srv.pc = "respond"
    /\ s2c' = Append(s2c, srv.res)
    /\ wlog' = Append(wlog, srv.res)
    /\ srv' = [pc |-> "decode", res |-> NoResp, via |-> "none"]
    /\ UNCHANGED <<c2s, contexts, sctx, sfw, pctx, spanic, hlog>>
    /\ UNCHANGED clientVars
    /\ UNCHANGED hostVars

\* ------------------------------------------------- server: the producer
\* lrpc_test.go:284-285: the handler's goroutine pushes the next value
\* (the i-th value pushed is i); the send blocks while the queue is full.
ProducerPush(p) ==
    /\ spanic = "none"
    /\ sctx[p].made
    /\ ~sctx[p].closed
    /\ sctx[p].pushed < MaxPush
    /\ Len(sctx[p].queue) < PushCap
    /\ sctx' = [sctx EXCEPT ![p].queue = Append(@, IntV(sctx[p].pushed + 1)),
                            ![p].pushed = @ + 1]
    /\ UNCHANGED <<c2s, s2c, srv, contexts, sfw, pctx, spanic, wlog, hlog>>
    /\ UNCHANGED clientVars
    /\ UNCHANGED hostVars

\* lrpc_test.go:282-285: the goroutine of Channel.Time pushes the time at
\* every tick of its ticker, for as long as it runs.
ProducerTick(p) ==
    /\ spanic = "none"
    /\ sctx[p].made
    /\ ~sctx[p].closed
    /\ sctx[p].pushed < MaxTick
    /\ Len(sctx[p].queue) < PushCap
    /\ sctx' = [sctx EXCEPT ![p].queue = Append(@, IntV(sctx[p].pushed + 1)),
                            ![p].pushed = @ + 1]
    /\ UNCHANGED <<c2s, s2c, srv, contexts, sfw, pctx, spanic, wlog, hlog>>
    /\ UNCHANGED clientVars
    /\ UNCHANGED hostVars

\* lrpc_test.go:286-288: the handler's goroutine sees Done() and closes
\* the push queue.
ProducerCloseOnDone(p) ==
    /\ spanic = "none"
    /\ sctx[p].made
    /\ ~sctx[p].closed
    /\ CtxDone(p)
    /\ sctx' = [sctx EXCEPT ![p].closed = TRUE]
    /\ UNCHANGED <<c2s, s2c, srv, contexts, sfw, pctx, spanic, wlog, hlog>>
    /\ UNCHANGED clientVars
    /\ UNCHANGED hostVars

\* A producer that has pushed all it had closes the push queue of its own
\* accord (the chan<- any of MakeChannel is the handler's to close).
ProducerClose(p) ==
    /\ spanic = "none"
    /\ sctx[p].made
    /\ ~sctx[p].closed
    /\ ~CtxDone(p)
    /\ sctx' = [sctx EXCEPT ![p].closed = TRUE]
    /\ UNCHANGED <<c2s, s2c, srv, contexts, sfw, pctx, spanic, wlog, hlog>>
    /\ UNCHANGED clientVars
    /\ UNCHANGED hostVars

\* ------------------------------------------------ server: the forwarder
\* A forwarder that forwards pushed values but never finds the push queue
\* closed.
SFwdRecvNeverClosed(p) ==
    /\ spanic = "none"
    /\ sfw[p].pc = "range"
    /\ sctx[p].queue # <<>>
    /\ sfw' = [sfw EXCEPT ![p] = [pc |-> "encode", val |-> Head(sctx[p].queue)]]
    /\ sctx' = [sctx EXCEPT ![p].queue = Tail(@)]
    /\ UNCHANGED <<c2s, s2c, srv, contexts, pctx, spanic, wlog, hlog>>
    /\ UNCHANGED clientVars
    /\ UNCHANGED hostVars

\* server.go:338: for val := range ctx.channel.
SFwdRecv(p) ==
    /\ spanic = "none"
    /\ sfw[p].pc = "range"
    /\ IF sctx[p].queue # <<>>
       THEN /\ sfw' = [sfw EXCEPT ![p] = [pc |-> "encode", val |-> Head(sctx[p].queue)]]
            /\ sctx' = [sctx EXCEPT ![p].queue = Tail(@)]
       ELSE /\ sctx[p].closed
            /\ sfw' = [sfw EXCEPT ![p].pc = "cancel"]
            /\ UNCHANGED sctx
    /\ UNCHANGED <<c2s, s2c, srv, contexts, pctx, spanic, wlog, hlog>>
    /\ UNCHANGED clientVars
    /\ UNCHANGED hostVars

\* server.go:339-345: write the pushed value under the channel ID.
SFwdEncode(p) ==
    /\ spanic = "none"
    /\ sfw[p].pc = "encode"
    /\ s2c' = Append(s2c, PushResponse(ChanID(p), sfw[p].val))
    /\ wlog' = Append(wlog, PushResponse(ChanID(p), sfw[p].val))
    /\ sfw' = [sfw EXCEPT ![p] = [pc |-> "range", val |-> Nil]]
    /\ UNCHANGED <<c2s, srv, contexts, sctx, pctx, spanic, hlog>>
    /\ UNCHANGED clientVars
    /\ UNCHANGED hostVars

\* A forwarder that cancels the context and leaves it in the map.
SFwdCancelKeepsEntry(p) ==
    /\ spanic = "none"
    /\ sfw[p].pc = "cancel"
    /\ sctx' = [sctx EXCEPT ![p].canceled = TRUE]
    /\ sfw' = [sfw EXCEPT ![p].pc = "done"]
    /\ UNCHANGED <<c2s, s2c, srv, contexts, pctx, spanic, wlog, hlog>>
    /\ UNCHANGED clientVars
    /\ UNCHANGED hostVars

\* server.go:348-353: the queue is closed and drained; cancel the context
\* and delete it from the map.
SFwdCancel(p) ==
    /\ spanic = "none"
    /\ sfw[p].pc = "cancel"
    /\ sctx' = [sctx EXCEPT ![p].canceled = TRUE]
    /\ contexts' = contexts \ {ChanID(p)}
    /\ sfw' = [sfw EXCEPT ![p].pc = "done"]
    /\ UNCHANGED <<c2s, s2c, srv, pctx, spanic, wlog, hlog>>
    /\ UNCHANGED clientVars
    /\ UNCHANGED hostVars

\* server.go:355-360: write ChannelDone; the goroutine ends.
SFwdDone(p) ==
    /\ spanic = "none"
    /\ sfw[p].pc = "done"
    /\ s2c' = Append(s2c, ChannelDoneResponse(ChanID(p)))
    /\ wlog' = Append(wlog, ChannelDoneResponse(ChanID(p)))
    /\ sfw' = [sfw EXCEPT ![p].pc = "exited"]
    /\ UNCHANGED <<c2s, srv, contexts, sctx, pctx, spanic, hlog>>
    /\ UNCHANGED clientVars
    /\ UNCHANGED hostVars

\* The context given to ServeConn is cancelled.
ParentCancel ==
    /\ spanic = "none"
    /\ ~pctx
    /\ pctx' = TRUE
    /\ UNCHANGED <<c2s, s2c, srv, contexts, sctx, sfw, spanic, wlog, hlog>>
    /\ UNCHANGED clientVars
    /\ UNCHANGED hostVars

\* --------------------------------------------- server: the encodes, in two
\* c.Encode writes to the stream for as long as it runs, so an encode is two
\* steps here: the writer enters Encode (after codecMtx.Lock(), where the
\* code takes it) and Encode returns (the frame is on the stream; then
\* codecMtx.Unlock()).  An encode entered while another is in progress
\* races with it on the codec and the stream: both are marked, and what
\* either leaves on the stream is its frame or bytes that decode to nothing.
EncodingPcs ==
    {"encoding", "encodingRace", "doneEncoding", "doneEncodingRace",
     "cdencoding", "cdencodingRace"}

\* The forwarders inside c.Encode (server.go:341 and 356).
SFwdEncoders == {p \in Callers : sfw[p].pc \in EncodingPcs}

\* handleConn is inside c.Encode, its own (server.go:366) or sendErr's
\* (server.go:375).
LoopEncoding == srv.pc \in EncodingPcs

\* codecMtx (server.go:294) is held: by the loop between server.go:365 and
\* 367, or by a forwarder between 339 and 345 or between 355 and 360.
\* sendErr (server.go:373-381) does not take it.
CodecMtxHeld == (LoopEncoding /\ srv.via = "encode") \/ SFwdEncoders # {}

\* The pc of an encode that another encode has joined.
Raced(pc) ==
    CASE pc = "encoding" -> "encodingRace"
      [] pc = "doneEncoding" -> "doneEncodingRace"
      [] pc = "cdencoding" -> "cdencodingRace"
      [] OTHER -> pc

\* What an encode leaves on the stream: its frame, or junk when it raced.
Frames(pc, frame, junk) ==
    IF pc \in {"encodingRace", "doneEncodingRace", "cdencodingRace"}
    THEN {frame, junk}
    ELSE {frame}

\* server.go:316 and 373-375 (sendErr: no lock), server.go:365-366
\* (codecMtx.Lock(), then Encode).
ServerEncodeBegin ==
    /\ spanic = "none"
    /\ srv.pc = "respond"
    /\ srv.via = "encode" => ~CodecMtxHeld
    /\ LET race == SFwdEncoders # {} IN
        /\ srv' = [srv EXCEPT !.pc = IF race THEN "encodingRace" ELSE "encoding"]
        /\ sfw' = [p \in Callers |->
                     [sfw[p] EXCEPT !.pc = IF race THEN Raced(@) ELSE @]]
    /\ UNCHANGED <<c2s, s2c, contexts, sctx, pctx, spanic, wlog, hlog>>
    /\ UNCHANGED clientVars
    /\ UNCHANGED hostVars

\* Encode returns to the loop (server.go:366-367, or 380 in sendErr).
ServerEncodeEnd ==
    /\ spanic = "none"
    /\ LoopEncoding
    /\ \E f \in Frames(srv.pc, srv.res, Garbled) :
        /\ s2c' = Append(s2c, f)
        /\ wlog' = Append(wlog, f)
    /\ srv' = [pc |-> "decode", res |-> NoResp, via |-> "none"]
    /\ UNCHANGED <<c2s, contexts, sctx, sfw, pctx, spanic, hlog>>
    /\ UNCHANGED clientVars
    /\ UNCHANGED hostVars

\* server.go:339-341: codecMtx.Lock(), then Encode of the pushed value.
SFwdEncodeBegin(p) ==
    /\ spanic = "none"
    /\ sfw[p].pc = "encode"
    /\ ~CodecMtxHeld
    /\ sfw' = [sfw EXCEPT ![p].pc = IF LoopEncoding THEN "encodingRace"
                                    ELSE "encoding"]
    /\ srv' = [srv EXCEPT !.pc = Raced(@)]
    /\ UNCHANGED <<c2s, s2c, contexts, sctx, pctx, spanic, wlog, hlog>>
    /\ UNCHANGED clientVars
    /\ UNCHANGED hostVars

\* server.go:341-345: Encode returns, codecMtx.Unlock().
SFwdEncodeEnd(p) ==
    /\ spanic = "none"
    /\ sfw[p].pc \in {"encoding", "encodingRace"}
    /\ \E f \in Frames(sfw[p].pc, PushResponse(ChanID(p), sfw[p].val), Garbled) :
        /\ s2c' = Append(s2c, f)
        /\ wlog' = Append(wlog, f)
    /\ sfw' = [sfw EXCEPT ![p] = [pc |-> "range", val |-> Nil]]
    /\ UNCHANGED <<c2s, srv, contexts, sctx, pctx, spanic, hlog>>
    /\ UNCHANGED clientVars
    /\ UNCHANGED hostVars

\* server.go:355-356: codecMtx.Lock(), then Encode of ChannelDone.
SFwdDoneBegin(p) ==
    /\ spanic = "none"
    /\ sfw[p].pc = "done"
    /\ ~CodecMtxHeld
    /\ sfw' = [sfw EXCEPT ![p].pc = IF LoopEncoding THEN "doneEncodingRace"
                                    ELSE "doneEncoding"]
    /\ srv' = [srv EXCEPT !.pc = Raced(@)]
    /\ UNCHANGED <<c2s, s2c, contexts, sctx, pctx, spanic, wlog, hlog>>
    /\ UNCHANGED clientVars
    /\ UNCHANGED hostVars

\* server.go:356-361: Encode returns, codecMtx.Unlock(); the goroutine ends.
SFwdDoneEnd(p) ==
    /\ spanic = "none"
    /\ sfw[p].pc \in {"doneEncoding", "doneEncodingRace"}
    /\ \E f \in Frames(sfw[p].pc, ChannelDoneResponse(ChanID(p)), Garbled) :
        /\ s2c' = Append(s2c, f)
        /\ wlog' = Append(wlog, f)
    /\ sfw' = [sfw EXCEPT ![p].pc = "exited"]
    /\ UNCHANGED <<c2s, srv, contexts, sctx, pctx, spanic, hlog>>
    /\ UNCHANGED clientVars
    /\ UNCHANGED hostVars

\* --------------------------------------------- client: the encodes, in two
\* Call in three steps: store the channel, enter c.codec.Encode, Encode
\* returns.  Client has no mutex for its codec: nothing is taken before
\* Encode, by a Call of the user or by the lrpc.ChannelDone Call of a
\* forwarder.
\* The Calls of the user inside c.codec.Encode (client.go:85).
CallEncoders == {p \in Callers : calls[p].pc \in EncodingPcs}

\* The forwarders whose lrpc.ChannelDone Call is inside c.codec.Encode
\* (client.go:169, then 85).
CFwdEncoders == {p \in Callers : cfw[p].pc \in EncodingPcs}

\* client.go:69-82: mint the ID and store the single-shot channel.
CallStore(p, plan) ==
    /\ cpanic = "none"
    /\ calls[p].pc = "idle"
    /\ \A q \in Callers : q < p => calls[q].pc # "idle"
    /\ calls' = [calls EXCEPT ![p].pc = "encode", ![p].plan = plan]
    /\ chs' = chs \cup {CallID(p)}
    /\ slot' = (CallID(p) :> <<>>) @@ slot
    /\ UNCHANGED <<cctx, closedCh, rd, cfw, sink, got, cpanic, c2s, s2c>>
    /\ UNCHANGED serverVars
    /\ UNCHANGED hostVars

\* client.go:85: the Call enters c.codec.Encode.
CallEncodeBegin(p) ==
    /\ cpanic = "none"
    /\ calls[p].pc = "encode"
    /\ LET race == CallEncoders \cup CFwdEncoders # {} IN
        /\ calls' = [q \in Callers |->
                       IF q = p
                       THEN [calls[q] EXCEPT !.pc = IF race THEN "encodingRace"
                                                    ELSE "encoding"]
                       ELSE [calls[q] EXCEPT !.pc = IF race THEN Raced(@) ELSE @]]
        /\ cfw' = [q \in Callers |->
                     [cfw[q] EXCEPT !.pc = IF race THEN Raced(@) ELSE @]]
    /\ UNCHANGED <<cctx, chs, slot, closedCh, rd, sink, got, cpanic, c2s, s2c>>
    /\ UNCHANGED serverVars
    /\ UNCHANGED hostVars

\* client.go:85-93: Encode returns nil; the Call goes on to its channel.
CallEncodeEnd(p) ==
    /\ cpanic = "none"
    /\ calls[p].pc \in EncodingPcs
    /\ LET plan == calls[p].plan
           req == Request(CallID(p), plan.rcvr, plan.method, WireOf(plan.arg))
       IN \E f \in Frames(calls[p].pc, req, Malformed(0)) : c2s' = Append(c2s, f)
    /\ calls' = [calls EXCEPT ![p].pc = "wait"]
    /\ UNCHANGED <<cctx, chs, slot, closedCh, rd, cfw, sink, got, cpanic, s2c>>
    /\ UNCHANGED serverVars
    /\ UNCHANGED hostVars

\* client.go:166-169, case 1 of the select: ctx is done; the forwarder
\* starts c.Call(context.Background(), "lrpc", "ChannelDone", chID, nil),
\* which stores its single-shot channel (client.go:80-82).
CFwdCancelStore(p) ==
    /\ cpanic = "none"
    /\ cfw[p].pc = "select"
    /\ cctx[p]
    /\ LET id == CdID(p, cfw[p].k) IN
        /\ chs' = chs \cup {id}
        /\ slot' = (id :> <<>>) @@ slot
    /\ cfw' = [cfw EXCEPT ![p].pc = "cdencode", ![p].val = Nil]
    /\ UNCHANGED <<calls, cctx, closedCh, rd, sink, got, cpanic, c2s, s2c>>
    /\ UNCHANGED serverVars
    /\ UNCHANGED hostVars

\* client.go:85, in the forwarder's Call: it enters c.codec.Encode.
CFwdCdEncodeBegin(p) ==
    /\ cpanic = "none"
    /\ cfw[p].pc = "cdencode"
    /\ LET race == CallEncoders \cup CFwdEncoders # {} IN
        /\ cfw' = [q \in Callers |->
                     IF q = p
                     THEN [cfw[q] EXCEPT !.pc = IF race THEN "cdencodingRace"
                                                ELSE "cdencoding"]
                     ELSE [cfw[q] EXCEPT !.pc = IF race THEN Raced(@) ELSE @]]
        /\ calls' = [q \in Callers |->
                       [calls[q] EXCEPT !.pc = IF race THEN Raced(@) ELSE @]]
    /\ UNCHANGED <<cctx, chs, slot, closedCh, rd, sink, got, cpanic, c2s, s2c>>
    /\ UNCHANGED serverVars
    /\ UNCHANGED hostVars

\* client.go:85-93, in the forwarder's Call: Encode returns; the Call
\* blocks on its single-shot channel.
CFwdCdEncodeEnd(p) ==
    /\ cpanic = "none"
    /\ cfw[p].pc \in EncodingPcs
    /\ LET req == Request(CdID(p, cfw[p].k), "lrpc", "ChannelDone", IdV(cfw[p].ch))
       IN \E f \in Frames(cfw[p].pc, req, Malformed(0)) : c2s' = Append(c2s, f)
    /\ cfw' = [cfw EXCEPT ![p].pc = "cdwait"]
    /\ UNCHANGED <<calls, cctx, chs, slot, closedCh, rd, sink, got, cpanic, s2c>>
    /\ UNCHANGED serverVars
    /\ UNCHANGED hostVars

\* ---------------------------------------------------------- host: Register
\* Server.Register (server.go:77-100).  val.Elem().Type() of a nil pointer
\* is Type() of the zero Value, which panics.
Register(v) ==
    /\ reg.ret # "panic"
    /\ reg' =
        IF v.kind = "ptr"
        THEN IF v.elem = "nil"
             THEN [rcvrs |-> reg.rcvrs, arg |-> v, ret |-> "panic",
                   prev |-> reg.rcvrs]
             ELSE [rcvrs |-> (v.name :> v) @@ reg.rcvrs, arg |-> v,
                   ret |-> NoError, prev |-> reg.rcvrs]
        ELSE IF v.kind = "struct"
        THEN [rcvrs |-> (v.name :> v) @@ reg.rcvrs, arg |-> v,
              ret |-> NoError, prev |-> reg.rcvrs]
        ELSE [rcvrs |-> reg.rcvrs, arg |-> v, ret |-> ErrInvalidType,
              prev |-> reg.rcvrs]
    /\ UNCHANGED <<lsn, uctx>>
    /\ UNCHANGED clientVars
    /\ UNCHANGED <<c2s, s2c>>
    /\ UNCHANGED serverVars

\* ------------------------------------------------------------- host: Serve
\* server.go:237-240: the goroutine Serve starts waits for ctx.Done() and
\* closes the listener.
ServeCloser ==
    /\ lsn.closer = "wait"
    /\ pctx
    /\ lsn' = [lsn EXCEPT !.closed = TRUE, !.closer = "done"]
    /\ UNCHANGED <<reg, uctx>>
    /\ UNCHANGED clientVars
    /\ UNCHANGED <<c2s, s2c>>
    /\ UNCHANGED serverVars

\* server.go:243 and 250-254: Accept returns a connection; its
\* handleConn goroutine is started and the loop goes on.
AcceptConn ==
    /\ lsn.loop = "accept"
    /\ ~lsn.closed
    /\ lsn.conns < MaxConn
    /\ lsn' = [lsn EXCEPT !.conns = @ + 1]
    /\ UNCHANGED <<reg, uctx>>
    /\ UNCHANGED clientVars
    /\ UNCHANGED <<c2s, s2c>>
    /\ UNCHANGED serverVars

\* An Accept loop that any Accept error ends.
AcceptErrorBreaks ==
    /\ lsn.loop = "accept"
    /\ ~lsn.closed
    /\ lsn.errs < MaxAcceptErr
    /\ lsn' = [lsn EXCEPT !.errs = @ + 1, !.loop = "exited"]
    /\ UNCHANGED <<reg, uctx>>
    /\ UNCHANGED clientVars
    /\ UNCHANGED <<c2s, s2c>>
    /\ UNCHANGED serverVars

\* server.go:243-248: Accept returns an error that is not net.ErrClosed:
\* continue.
AcceptError ==
    /\ lsn.loop = "accept"
    /\ ~lsn.closed
    /\ lsn.errs < MaxAcceptErr
    /\ lsn' = [lsn EXCEPT !.errs = @ + 1]
    /\ UNCHANGED <<reg, uctx>>
    /\ UNCHANGED clientVars
    /\ UNCHANGED <<c2s, s2c>>
    /\ UNCHANGED serverVars

\* server.go:243-245: Accept on the closed listener returns net.ErrClosed:
\* break.
AcceptClosed ==
    /\ lsn.loop = "accept"
    /\ lsn.closed
    /\ lsn' = [lsn EXCEPT !.loop = "exited"]
    /\ UNCHANGED <<reg, uctx>>
    /\ UNCHANGED clientVars
    /\ UNCHANGED <<c2s, s2c>>
    /\ UNCHANGED serverVars

\* ----------------------------------------------------------- host: Context
\* Context.Cancel (context.go:141-144), first statement:
\* ctx.canceled = true.
CancelSet(k) ==
    /\ uctx.panic = "none"
    /\ uctx.cancel[k] = "idle"
    /\ uctx' = [uctx EXCEPT !.canceled = TRUE, !.cancel[k] = "set"]
    /\ UNCHANGED <<reg, lsn>>
    /\ UNCHANGED clientVars
    /\ UNCHANGED <<c2s, s2c>>
    /\ UNCHANGED serverVars

\* Context.Cancel, second statement: close(ctx.doneCh), which panics when
\* the channel is closed already.
CancelClose(k) ==
    /\ uctx.panic = "none"
    /\ uctx.cancel[k] = "set"
    /\ uctx' = IF uctx.closed
               THEN [uctx EXCEPT !.panic = "close of closed channel"]
               ELSE [uctx EXCEPT !.closed = TRUE, !.cancel[k] = "done"]
    /\ UNCHANGED <<reg, lsn>>
    /\ UNCHANGED clientVars
    /\ UNCHANGED <<c2s, s2c>>
    /\ UNCHANGED serverVars

\* What a call of Err may return: ctx.canceled is read without
\* synchronisation, so a read made while a Cancel is between its two
\* statements, before any close(ctx.doneCh) has published the write, may
\* see either value.
ErrReads(c) ==
    IF CancelInProgress(c) /\ ~c.closed THEN {Err(c), NoError} ELSE {Err(c)}

\* A goroutine calls Err, Done, Deadline or Value and notes the result,
\* together with whether a Cancel had been called and had returned.
Observe(call) ==
    /\ uctx.panic = "none"
    /\ Len(uctx.obs) < MaxObs
    /\ \E res \in CASE call = "Err" -> {[err |-> e] : e \in ErrReads(uctx)}
                      [] call = "Done" -> {[ready |-> Done(uctx)]}
                      [] call = "Deadline" -> {Deadline(uctx)}
                      [] OTHER -> {[val |-> Value(uctx, "key")]} :
        uctx' = [uctx EXCEPT !.obs = Append(@,
                    [call |-> call, res |-> res,
                     begun |-> CancelBegun(uctx),
                     returned |-> CancelReturned(uctx)])]
    /\ UNCHANGED <<reg, lsn>>
    /\ UNCHANGED clientVars
    /\ UNCHANGED <<c2s, s2c>>
    /\ UNCHANGED serverVars

\* ------------------------------------------------------------------ codecs
\* codec.Msgpack, codec.JSON, codec.Gob (codec.go:121, 142, 169).
Codecs == {"msgpack", "json", "gob"}

\* A time.Duration, the argument of Channel.Time (lrpc_test.go:318).
DurV(n) == [k |-> "dur", v |-> n]

\* The kinds of value gob carries in a field of type `any`: nil, the basic
\* types, and the types named to gob.Register (lrpc_test.go:233, [2]int).
GobRegistered == {"nil", "int", "str", "id", "arr"}
ErrGobNotRegistered == "gob: type not registered for interface"

\* Whether the codec's Encode of a record holding the value succeeds.
Encodes(cd, a) == cd # "gob" \/ a.k \in GobRegistered

\* A number as the codec's Decode into `any` yields it.
NumOf(cd, n) ==
    [k |-> IF cd = "msgpack" THEN "i8" ELSE IF cd = "json" THEN "f64" ELSE "int",
     v |-> n]

\* What the codec's Encode followed by the peer's Decode into `any` makes of
\* a Go value.  gob hands back the concrete type; MessagePack and JSON hand
\* back a []any for an array and their own kind of number for a number.
Decoded(cd, a) ==
    IF cd = "gob" THEN a
    ELSE IF a.k = "arr" THEN SeqV([i \in 1 .. Len(a.v) |-> NumOf(cd, a.v[i])])
    ELSE IF a.k \in {"int", "dur"} THEN NumOf(cd, a.v)
    ELSE a

\* The initial response (server.go:315-367) as the client decodes it.
CodecResponse(cd, id, x) ==
    [InitialResponse(id, x) EXCEPT !.ret = Decoded(cd, @)]

\* One Call over a session whose peers both use codec cd, from Call's
\* Encode (client.go:85-93) through handleConn and execute to what Call
\* makes of the response.  pc "wait": the Call never returns (the server
\* panicked, or its Encode failed and wrote nothing, server.go:365);
\* pc "register": the Call is returning the channel.
CodecExchange(cd, id, plan) ==
    LET c == [pc |-> "idle", plan |-> plan, resp |-> NoResp,
              err |-> NoError, out |-> Nil]
        x == execute(plan.rcvr, plan.method, Decoded(cd, plan.arg))
    IN  IF ~Encodes(cd, plan.arg)
        THEN [c EXCEPT !.pc = "done", !.err = ErrGobNotRegistered]
        ELSE IF x.panics \/ ~Encodes(cd, InitialResponse(id, x).ret)
        THEN [c EXCEPT !.pc = "wait"]
        ELSE CallOutcome(c, CodecResponse(cd, id, x))

\* What the caller of Call observes: whether and how it returned, the
\* error, and the value stored through returnSink.
Observable(c) == [pc |-> c.pc, err |-> c.err, out |-> c.out]

\* TestCodecs (lrpc_test.go:231-270): a Call made over a session of codec
\* cd and run to its outcome before the next Call is made.
CodecCall(p, cd, plan) ==
    /\ spanic = "none"
    /\ calls[p].pc = "idle"
    /\ \A q \in Callers : q < p => calls[q].pc # "idle"
    /\ LET c == CodecExchange(cd, CallID(p), plan)
           x == execute(plan.rcvr, plan.method, Decoded(cd, plan.arg))
           served == Encodes(cd, plan.arg) /\ ~x.panics
           promoted == served /\ x.promote /\ x.err = NoError
       IN
        /\ calls' = [calls EXCEPT ![p] = c]
        /\ wlog' = IF c.resp # NoResp THEN Append(wlog, c.resp) ELSE wlog
        /\ hlog' = IF served /\ x.invoked
                   THEN Append(hlog, [id |-> CallID(p), rcvr |-> plan.rcvr,
                                      method |-> plan.method])
                   ELSE hlog
        /\ contexts' = IF promoted THEN contexts \cup {ChanID(p)} ELSE contexts
        /\ sctx' = IF served /\ x.promote
                   THEN [sctx EXCEPT ![p].made = TRUE] ELSE sctx
        /\ sfw' = IF promoted THEN [sfw EXCEPT ![p].pc = "range"] ELSE sfw
        /\ spanic' = IF Encodes(cd, plan.arg) /\ x.panics THEN "panic" ELSE spanic
    /\ UNCHANGED <<cctx, chs, slot, closedCh, rd, cfw, sink, got, cpanic,
                   c2s, s2c, srv, pctx>>
    /\ UNCHANGED hostVars

\* ------------------------------------------------------------ specification
\* Plans of single-shot calls (lrpc.ChannelDone only for an unknown ID).
SinglePlans ==
    ArithPlans \cup FailingPlans \cup ErrorPlans
        \cup {Plan("lrpc", "ChannelDone", IdV(UnknownID), "nil")}

\* The channel scenario: the first Call is Channel.Time; the second is
\* lrpc.ChannelDone on its channel or on an unknown ID, or Arith.Add.
ChanPlans(p) ==
    IF p = 1 THEN ChannelPlans
    ELSE IF p = 2
    THEN {Plan("lrpc", "ChannelDone", IdV(ChanID(1)), "nil"),
          Plan("lrpc", "ChannelDone", IdV(UnknownID), "nil"),
          Plan("Arith", "Add", ArrV(5, 5), "ptr")}
    ELSE {}

\* The teardown scenario: the one Call of the session is Channel.Time.
ServePlans(p) == IF p = 1 THEN ChannelPlans ELSE {}

\* Concurrent single-shot Calls.
NextCalls ==
    \/ \E p \in Callers, plan \in SinglePlans : CallStart(p, plan)
    \/ \E p \in Callers : CallRecv(p)
    \/ ReaderDecode
    \/ ReaderDeliver
    \/ ServerDecode
    \/ ServerRespond

\* The channel of caller p's Call is active: Call has returned it, its
\* forwarder runs and the user's channel is open.
ChannelActive(p) == cfw[p].pc \notin {"none", "exited"} /\ ~sink[p].closed

\* Concurrent Arith Calls; the user may cancel the ctx of a Call that is
\* blocked on its response.
NextCancel ==
    \/ \E p \in Callers, plan \in ArithPlans : CallStart(p, plan)
    \/ \E p \in Callers : CallRecv(p)
    \/ \E p \in Callers : calls[p].pc = "wait" /\ CancelCall(p)
    \/ ReaderDecode
    \/ ReaderDeliver
    \/ ServerDecode
    \/ ServerRespond

\* A channel Call next to another Call; the user may cancel the ctx of
\* the channel Call while the channel is active.
NextChan ==
    \/ \E p \in Callers : \E plan \in ChanPlans(p) : CallStart(p, plan)
    \/ \E p \in Callers : CallRecv(p)
    \/ \E p \in Callers : CallRegister(p)
    \/ \E p \in Callers : ChannelActive(p) /\ CancelCall(p)
    \/ ReaderDecode
    \/ ReaderDeliver
    \/ \E p \in Callers : CFwdStart(p)
    \/ \E p \in Callers : CFwdRecv(p)
    \/ \E p \in Callers : CFwdSend(p)
    \/ \E p \in Callers : CFwdCancel(p)
    \/ \E p \in Callers : CFwdCdRecv(p)
    \/ \E p \in Callers : ConsumerRecv(p)
    \/ ServerDecode
    \/ ServerRespond
    \/ \E p \in Callers : ProducerPush(p)
    \/ \E p \in Callers : ProducerCloseOnDone(p)
    \/ \E p \in Callers : ProducerClose(p)
    \/ \E p \in Callers : SFwdRecv(p)
    \/ \E p \in Callers : SFwdEncode(p)
    \/ \E p \in Callers : SFwdCancel(p)
    \/ \E p \in Callers : SFwdDone(p)

\* A channel Call whose ctx the user never cancels, on a server whose
\* parent context may be cancelled.
NextServe ==
    \/ \E p \in Callers : \E plan \in ServePlans(p) : CallStart(p, plan)
    \/ \E p \in Callers : CallRecv(p)
    \/ \E p \in Callers : CallRegister(p)
    \/ ReaderDecode
    \/ ReaderDeliver
    \/ \E p \in Callers : CFwdStart(p)
    \/ \E p \in Callers : CFwdRecv(p)
    \/ \E p \in Callers : CFwdSend(p)
    \/ \E p \in Callers : ConsumerRecv(p)
    \/ ServerDecode
    \/ ServerRespond
    \/ \E p \in Callers : ProducerPush(p)
    \/ \E p \in Callers : ProducerCloseOnDone(p)
    \/ \E p \in Callers : ProducerClose(p)
    \/ \E p \in Callers : SFwdRecv(p)
    \/ \E p \in Callers : SFwdEncode(p)
    \/ \E p \in Callers : SFwdCancel(p)
    \/ \E p \in Callers : SFwdDone(p)
    \/ ParentCancel

\* The suspension scenario: the first Call is of a method that suspends,
\* the second (lrpc.ChannelDone, Arith, a failing Call) is made while it
\* is suspended or after.
SuspendPlans(p) ==
    IF p = 1 THEN {Plan("Slow", "Wait", Nil, "nil")} ELSE SinglePlans

NextSuspend ==
    \/ \E p \in Callers : \E plan \in SuspendPlans(p) : CallStart(p, plan)
    \/ \E p \in Callers : CallRecv(p)
    \/ ReaderDecode
    \/ ReaderDeliver
    \/ ServerDecode
    \/ HandlerReturn
    \/ ServerRespond

\* Registrations on a new Server.
NextRegister == \E v \in RegValues : Register(v)

\* Serve on a listener, with a ctx its caller may cancel.
NextListen ==
    \/ ParentCancel
    \/ ServeCloser
    \/ AcceptConn
    \/ AcceptError
    \/ AcceptClosed

\* One Context, the callers of its Cancel and its observers.
NextContext ==
    \/ \E k \in Cancellers : CancelSet(k)
    \/ \E k \in Cancellers : CancelClose(k)
    \/ \E call \in {"Err", "Done", "Deadline", "Value"} : Observe(call)

\* The sink scenario: the first Call is Channel.Time given a pointer or
\* nil as returnSink; the others are Arith Calls given nil, a channel or
\* a pointer.
SinkPlans(p) ==
    IF p = 1
    THEN {Plan("Channel", "Time", IntV(1), r) : r \in {"ptr", "nil"}}
    ELSE {Plan("Arith", "Add", ArrV(5, 5), r) : r \in {"nil", "chan", "ptr"}}

\* Calls whose returnSink does not fit the response; the server side of
\* the channel runs as ever.
NextSink ==
    \/ \E p \in Callers : \E plan \in SinkPlans(p) : CallStart(p, plan)
    \/ \E p \in Callers : CallRecv(p)
    \/ ReaderDecode
    \/ ReaderDeliver
    \/ ServerDecode
    \/ ServerRespond
    \/ \E p \in Callers : ProducerPush(p)
    \/ \E p \in Callers : ProducerClose(p)
    \/ \E p \in Callers : SFwdRecv(p)
    \/ \E p \in Callers : SFwdEncode(p)
    \/ \E p \in Callers : SFwdCancel(p)
    \/ \E p \in Callers : SFwdDone(p)

\* The end-of-stream scenario: Arith Calls made on a session whose stream
\* may end at any time.
NextEof ==
    \/ \E p \in Callers, plan \in ArithPlans : CallOnOpenStream(p, plan)
    \/ \E p \in Callers : CallRecv(p)
    \/ ReaderDecode
    \/ ReaderDeliver
    \/ StreamEnd
    \/ ServerDecode
    \/ ServerRespond

\* The promotion scenario: the first Call is of a method that calls
\* MakeChannel and returns nil, a value or an error; the second is a
\* single-shot Call that returns a value, an error or nothing.
PromotePlans(p) ==
    IF p = 1
    THEN ChannelPlans \cup {Plan("Channel", "Count", Nil, "chan"),
                            Plan("Channel", "Fail", Nil, "chan")}
    ELSE IF p = 2
    THEN {Plan("Arith", "Add", ArrV(5, 5), "ptr"),
          Plan("lrpc", "Introspect", StrV("Nope"), "ptr"),
          Plan("lrpc", "ChannelDone", IdV(UnknownID), "nil")}
    ELSE {}

NextPromote ==
    \/ \E p \in Callers : \E plan \in PromotePlans(p) : CallStart(p, plan)
    \/ \E p \in Callers : CallRecv(p)
    \/ \E p \in Callers : CallRegister(p)
    \/ ReaderDecode
    \/ ReaderDeliver
    \/ \E p \in Callers : CFwdStart(p)
    \/ \E p \in Callers : CFwdRecv(p)
    \/ \E p \in Callers : CFwdSend(p)
    \/ \E p \in Callers : ConsumerRecv(p)
    \/ ServerDecode
    \/ ServerRespond
    \/ \E p \in Callers : ProducerPush(p)
    \/ \E p \in Callers : ProducerClose(p)
    \/ \E p \in Callers : SFwdRecv(p)
    \/ \E p \in Callers : SFwdEncode(p)
    \/ \E p \in Callers : SFwdCancel(p)
    \/ \E p \in Callers : SFwdDone(p)

\* The server-write scenario: the first Call is Channel.Time; the second is
\* answered by sendErr (unknown receiver, a handler's error) or by the
\* loop's own encode (Arith.Add).
SrvWritePlans(p) ==
    IF p = 1 THEN ChannelPlans
    ELSE IF p = 2
    THEN {Plan("Nope", "Add", ArrV(5, 5), "ptr"),
          Plan("lrpc", "Introspect", StrV("Nope"), "ptr"),
          Plan("Arith", "Add", ArrV(5, 5), "ptr")}
    ELSE {}

\* A channel Call next to another Call, every encode of the server in two
\* steps.
NextSrvWrite ==
    \/ \E p \in Callers : \E plan \in SrvWritePlans(p) : CallStart(p, plan)
    \/ \E p \in Callers : CallRecv(p)
    \/ \E p \in Callers : CallRegister(p)
    \/ ReaderDecode
    \/ ReaderDeliver
    \/ \E p \in Callers : CFwdStart(p)
    \/ \E p \in Callers : CFwdRecv(p)
    \/ \E p \in Callers : CFwdSend(p)
    \/ \E p \in Callers : ConsumerRecv(p)
    \/ ServerDecode
    \/ ServerEncodeBegin
    \/ ServerEncodeEnd
    \/ \E p \in Callers : ProducerPush(p)
    \/ \E p \in Callers : ProducerClose(p)
    \/ \E p \in Callers : SFwdRecv(p)
    \/ \E p \in Callers : SFwdEncodeBegin(p)
    \/ \E p \in Callers : SFwdEncodeEnd(p)
    \/ \E p \in Callers : SFwdCancel(p)
    \/ \E p \in Callers : SFwdDoneBegin(p)
    \/ \E p \in Callers : SFwdDoneEnd(p)

\* The client-write scenario: the first Call is Channel.Time, whose ctx the
\* user may cancel; the second is Arith.Add.
CliWritePlans(p) ==
    IF p = 1 THEN ChannelPlans
    ELSE IF p = 2 THEN {Plan("Arith", "Add", ArrV(5, 5), "ptr")}
    ELSE {}

\* A channel Call next to another Call, every encode of the client in two
\* steps.
NextCliWrite ==
    \/ \E p \in Callers : \E plan \in CliWritePlans(p) : CallStore(p, plan)
    \/ \E p \in Callers : CallEncodeBegin(p)
    \/ \E p \in Callers : CallEncodeEnd(p)
    \/ \E p \in Callers : CallRecv(p)
    \/ \E p \in Callers : CallRegister(p)
    \/ \E p \in Callers : ChannelActive(p) /\ CancelCall(p)
    \/ ReaderDecode
    \/ ReaderDeliver
    \/ \E p \in Callers : CFwdStart(p)
    \/ \E p \in Callers : CFwdRecv(p)
    \/ \E p \in Callers : CFwdSend(p)
    \/ \E p \in Callers : CFwdCancelStore(p)
    \/ \E p \in Callers : CFwdCdEncodeBegin(p)
    \/ \E p \in Callers : CFwdCdEncodeEnd(p)
    \/ \E p \in Callers : CFwdCdRecv(p)
    \/ \E p \in Callers : ConsumerRecv(p)
    \/ ServerDecode
    \/ ServerRespond
    \/ \E p \in Callers : ProducerPush(p)
    \/ \E p \in Callers : ProducerCloseOnDone(p)
    \/ \E p \in Callers : ProducerClose(p)
    \/ \E p \in Callers : SFwdRecv(p)
    \/ \E p \in Callers : SFwdEncode(p)
    \/ \E p \in Callers : SFwdCancel(p)
    \/ \E p \in Callers : SFwdDone(p)

\* The decode scenario: Arith Calls whose request may reach the server
\* damaged, on a stream the client may close.
NextDecode ==
    \/ \E p \in Callers, plan \in ArithPlans : CallBeforeClose(p, plan)
    \/ \E p \in Callers, plan \in ArithPlans, idOk \in BOOLEAN :
            CallDamaged(p, plan, idOk)
    \/ CloseStream
    \/ \E p \in Callers : CallRecv(p)
    \/ ReaderDecode
    \/ ReaderDeliver
    \/ ServerDecode
    \/ ServerRespond

\* The session-end scenario: a channel Call on a stream whose sending side
\* the client may close; the context given to ServeConn may be cancelled
\* by its owner.
NextServeEof ==
    \/ \E p \in Callers : \E plan \in ServePlans(p) : CallBeforeClose(p, plan)
    \/ CloseStream
    \/ \E p \in Callers : CallRecv(p)
    \/ \E p \in Callers : CallRegister(p)
    \/ ReaderDecode
    \/ ReaderDeliver
    \/ \E p \in Callers : CFwdStart(p)
    \/ \E p \in Callers : CFwdRecv(p)
    \/ \E p \in Callers : CFwdSend(p)
    \/ \E p \in Callers : ConsumerRecv(p)
    \/ ServerDecode
    \/ ServerRespond
    \/ \E p \in Callers : ProducerPush(p)
    \/ \E p \in Callers : ProducerCloseOnDone(p)
    \/ \E p \in Callers : ProducerClose(p)
    \/ \E p \in Callers : SFwdRecv(p)
    \/ \E p \in Callers : SFwdEncode(p)
    \/ \E p \in Callers : SFwdCancel(p)
    \/ \E p \in Callers : SFwdDone(p)
    \/ ParentCancel

\* Calls whose argument is not of the declared type: Arith.Add, which
\* declares [2]int, given three numbers, one number, a number or a string;
\* Channel.Time, which declares a number, given a string.
CoercePlans ==
    {Plan("Arith", "Add", SliceV(<<1, 2, 3>>), "ptr"),
     Plan("Arith", "Add", SliceV(<<5>>), "ptr"),
     Plan("Arith", "Add", IntV(5), "ptr"),
     Plan("Arith", "Add", StrV("x"), "ptr"),
     Plan("Channel", "Time", StrV("x"), "chan"),
     Plan("Arith", "Add", ArrV(5, 5), "ptr")}

\* The coercion scenario: single-shot Calls with such arguments.
NextCoerce ==
    \/ \E p \in Callers, plan \in CoercePlans : CallStart(p, plan)
    \/ \E p \in Callers : CallRecv(p)
    \/ ReaderDecode
    \/ ReaderDeliver
    \/ ServerDecode
    \/ ServerRespond

\* The ticker scenario: Channel.Time as the test has it, a producer that
\* pushes at every tick until Done() is ready; the user cancels the ctx of
\* the Call while the channel is active.  The user does not receive from
\* the channel.
NextTicker ==
    \/ \E plan \in ChannelPlans : CallStart(1, plan)
    \/ \E p \in Callers : CallRecv(p)
    \/ \E p \in Callers : CallRegister(p)
    \/ \E p \in Callers : ChannelActive(p) /\ CancelCall(p)
    \/ ReaderDecode
    \/ ReaderDeliver
    \/ \E p \in Callers : CFwdStart(p)
    \/ \E p \in Callers : CFwdRecv(p)
    \/ \E p \in Callers : CFwdSend(p)
    \/ \E p \in Callers : CFwdCancel(p)
    \/ \E p \in Callers : CFwdCdRecv(p)
    \/ ServerDecode
    \/ ServerRespond
    \/ \E p \in Callers : ProducerTick(p)
    \/ \E p \in Callers : ProducerCloseOnDone(p)
    \/ \E p \in Callers : SFwdRecv(p)
    \/ \E p \in Callers : SFwdEncode(p)
    \/ \E p \in Callers : SFwdCancel(p)
    \/ \E p \in Callers : SFwdDone(p)

\* Calls without an argument of methods that declare one (Arith.Add,
\* Channel.Time, lrpc.Introspect, lrpc.ChannelDone), next to Calls that
\* have their argument.
NoArgPlans ==
    {Plan("Arith", "Add", Nil, "ptr"),
     Plan("Channel", "Time", Nil, "chan"),
     Plan("lrpc", "Introspect", Nil, "ptr"),
     Plan("lrpc", "ChannelDone", Nil, "nil"),
     Plan("Arith", "Add", ArrV(5, 5), "ptr"),
     Plan("Arith", "Mul", ArrV(5, 5), "ptr")}

\* The scenario of the missing argument: single-shot Calls.
NextNoArg ==
    \/ \E p \in Callers, plan \in NoArgPlans : CallStart(p, plan)
    \/ \E p \in Callers : CallRecv(p)
    \/ ReaderDecode
    \/ ReaderDeliver
    \/ ServerDecode
    \/ ServerRespond

\* Arith Calls, one of them with an argument that cannot be encoded.
EncodePlans ==
    {Plan("Arith", "Add", ArrV(5, 5), "ptr"),
     Plan("Arith", "Mul", ArrV(5, 5), "ptr"),
     Plan("Arith", "Add", ChanV, "ptr")}

\* The scenario of the failing Encode: single-shot Calls on a stream the
\* client may close.
NextEncode ==
    \/ \E p \in Callers, plan \in EncodePlans : CallEncoded(p, plan)
    \/ \E p \in Callers, plan \in EncodePlans : CallEncodeFail(p, plan)
    \/ CloseStream
    \/ \E p \in Callers : CallRecv(p)
    \/ ReaderDecode
    \/ ReaderDeliver
    \/ ServerDecode
    \/ ServerRespond

\* The scenario of two sessions: a channel Call on this session, and on
\* another session of the same Server an lrpc.ChannelDone request that
\* names this session's channel or no channel.
NextPeer ==
    \/ \E p \in Callers : \E plan \in ServePlans(p) : CallStart(p, plan)
    \/ \E p \in Callers : CallRecv(p)
    \/ \E p \in Callers : CallRegister(p)
    \/ ReaderDecode
    \/ ReaderDeliver
    \/ \E p \in Callers : CFwdStart(p)
    \/ \E p \in Callers : CFwdRecv(p)
    \/ \E p \in Callers : CFwdSend(p)
    \/ \E p \in Callers : ConsumerRecv(p)
    \/ ServerDecode
    \/ ServerRespond
    \/ \E id \in {ChanID(1), UnknownID} : PeerChannelDone(id)
    \/ \E p \in Callers : ProducerPush(p)
    \/ \E p \in Callers : ProducerCloseOnDone(p)
    \/ \E p \in Callers : ProducerClose(p)
    \/ \E p \in Callers : SFwdRecv(p)
    \/ \E p \in Callers : SFwdEncode(p)
    \/ \E p \in Callers : SFwdCancel(p)
    \/ \E p \in Callers : SFwdDone(p)

\* The codec scenario: Arith and failing Calls, Channel.Time of a
\* time.Duration, and lrpc.Introspect given a number for its string.
CodecPlans ==
    ArithPlans \cup FailingPlans \cup ErrorPlans
        \cup {Plan("Channel", "Time", DurV(1), "chan"),
              Plan("lrpc", "Introspect", IntV(65), "ptr")}

\* One Call after the other, each over a session of some codec.
NextCodec ==
    \E p \in Callers, cd \in Codecs, plan \in CodecPlans : CodecCall(p, cd, plan)

Spec == Init /\ [][NextCalls]_vars
SpecChan == Init /\ [][NextChan]_vars
SpecServe == Init /\ [][NextServe]_vars
SpecCancel == Init /\ [][NextCancel]_vars
SpecCodec == Init /\ [][NextCodec]_vars
SpecSuspend == Init /\ [][NextSuspend]_vars
SpecRegister == Init /\ [][NextRegister]_vars
SpecSink == Init /\ [][NextSink]_vars
SpecEof == Init /\ [][NextEof]_vars
SpecPromote == Init /\ [][NextPromote]_vars
SpecListen == Init /\ [][NextListen]_vars
SpecContext == Init /\ [][NextContext]_vars
SpecSrvWrite == Init /\ [][NextSrvWrite]_vars
SpecCliWrite == Init /\ [][NextCliWrite]_vars
SpecDecode == Init /\ [][NextDecode]_vars
SpecServeEof == Init /\ [][NextServeEof]_vars
SpecCoerce == Init /\ [][NextCoerce]_vars
SpecTicker == Init /\ [][NextTicker]_vars
SpecNoArg == Init /\ [][NextNoArg]_vars
SpecEncode == Init /\ [][NextEncode]_vars
SpecPeer == Init /\ [][NextPeer]_vars

\* Every goroutine of the program that can take a step eventually takes
\* one.  What the user and the handler's producer do of their own accord
\* (start a Call, cancel, receive, push, close unprompted, cancel the
\* parent context) is not forced.
ClientFairness ==
    /\ WF_vars(ReaderDecode)
    /\ WF_vars(ReaderDeliver)
    /\ \A p \in Callers :
        /\ WF_vars(CallRecv(p))
        /\ WF_vars(CallRegister(p))
        /\ WF_vars(CFwdStart(p))
        /\ WF_vars(CFwdRecv(p))
        /\ WF_vars(CFwdSend(p))
        /\ WF_vars(CFwdCancel(p))
        /\ WF_vars(CFwdCdRecv(p))

ServerFairness ==
    /\ WF_vars(ServerDecode)
    /\ WF_vars(ServerRespond)
    /\ \A p \in Callers :
        /\ WF_vars(SFwdRecv(p))
        /\ WF_vars(SFwdEncode(p))
        /\ WF_vars(SFwdCancel(p))
        /\ WF_vars(SFwdDone(p))

FairChan == SpecChan /\ ClientFairness /\ ServerFairness
FairServe == SpecServe /\ ClientFairness /\ ServerFairness
FairCancel == SpecCancel /\ ClientFairness /\ ServerFairness
FairEof == SpecEof /\ ClientFairness /\ ServerFairness
\* The session whose stream ends, with a producer that closes its push
\* queue whenever it finds Done() ready.
FairServeEof ==
    /\ SpecServeEof
    /\ ClientFairness
    /\ ServerFairness
    /\ \A p \in Callers : WF_vars(ProducerCloseOnDone(p))
\* The ticker session; the user is not bound to go on receiving.
FairTicker ==
    /\ SpecTicker
    /\ ClientFairness
    /\ ServerFairness
    /\ \A p \in Callers : WF_vars(ProducerCloseOnDone(p))
\* The closer goroutine and the accept loop of Serve take their steps.
FairListen == SpecListen /\ WF_vars(ServeCloser) /\ WF_vars(AcceptClosed)

\* -------------------------------------------------------------- properties
\* The result the handler computes from the argument of caller p's own
\* request.
OwnResult(p) == ArithCall(calls[p].plan.method, calls[p].plan.arg.v).val

\* C1: for Calls issued concurrently on one session with distinct
\* arguments, every Call that has returned took the response whose ID is
\* the ID of its own request, and an Arith Call holds the result computed
\* from its own argument, never another caller's.
C1_OwnResponse ==
    \A p \in Callers :
        calls[p].pc = "done" =>
            /\ calls[p].resp.id = CallID(p)
            /\ calls[p].plan \in ArithPlans =>
                /\ calls[p].err = NoError
                /\ calls[p].out = OwnResult(p)

\* C1 witness: Add([5,5]) and Add([2,2]) are outstanding together, the
\* responses to both have reached the client, and the second Call has
\* returned 4 while the first has still to take its 10.
C1_Witness ==
    /\ calls[1].plan = Plan("Arith", "Add", ArrV(5, 5), "ptr")
    /\ calls[2].plan = Plan("Arith", "Add", ArrV(2, 2), "ptr")
    /\ calls[1].pc = "wait"
    /\ slot[CallID(1)] # <<>>
    /\ calls[2].pc = "done"
    /\ calls[2].out = IntV(4)

\* The values 1..n as the producer pushes them.
Pushed(n) == [i \in 1 .. n |-> IntV(i)]

\* C2: when the producer has pushed v1..vn and closed the push queue and
\* the user's channel has been closed (the user has not cancelled), the
\* user has received, or still finds in its channel, exactly v1..vn in
\* that order.
C2_AllDelivered ==
    \A p \in Callers :
        (sink[p].closed /\ ~cctx[p]) =>
            got[p] \o sink[p].buf = Pushed(sctx[p].pushed)

\* C3: once the user has cancelled the ctx of an active channel Call, the
\* user's channel is eventually closed.
C3_EventuallyClosed ==
    \A p \in Callers : [](cctx[p] => <>sink[p].closed)

\* The server has run lrpc.ChannelDone for a request of the forwarder of
\* caller p's channel.
ChannelDoneProcessed(p) ==
    \E i \in DOMAIN hlog :
        /\ hlog[i].rcvr = "lrpc"
        /\ hlog[i].method = "ChannelDone"
        /\ hlog[i].id \in {CdID(p, k) : k \in 0 .. MaxPush}

\* C4: once the user has cancelled the ctx of an active channel Call, the
\* server eventually processes an lrpc.ChannelDone request for the channel
\* and Done() of the handler's context is ready.
C4_EventuallyDone ==
    \A p \in Callers : [](cctx[p] => <>(ChannelDoneProcessed(p) /\ CtxDone(p)))

\* The forwarder goroutine of caller p's promoted call is running.
ForwarderRunning(p) == sfw[p].pc \notin {"none", "exited"}

ProducerClosesOnDone(p) ==
    [](sctx[p].made /\ CtxDone(p) => <>sctx[p].closed)

TakesChannelDone ==
    /\ srv.pc = "decode"
    /\ c2s # <<>>
    /\ Head(c2s).rcvr = "lrpc"
    /\ Head(c2s).method = "ChannelDone"
    /\ c2s' = Tail(c2s)

\* C6: every lrpc.ChannelDone request is answered with a non-error
\* response (for the same channel ID as often as it is called), and one
\* whose ID is not in the active-channel map cancels no context and
\* leaves the map as it is.
C6_AbsentIsNoOp ==
    [][TakesChannelDone =>
        /\ srv'.pc = "respond"
        /\ srv'.res = NormalResponse(Head(c2s).id, Nil)
        /\ Head(c2s).arg.v \notin contexts =>
            /\ contexts' = contexts
            /\ sctx' = sctx]_vars

\* C7: a single-shot Call whose ctx is cancelled while it is blocked on
\* its response returns the cancellation error, its call-site entry
\* removed.
C7_CancelledCallReturns ==
    \A p \in Callers :
        [](cctx[p] /\ calls[p].pc = "wait" =>
            <>(/\ calls[p].pc = "done"
               /\ calls[p].err = "context canceled"
               /\ CallID(p) \notin chs))

\* The text execute fails with for a request that cannot be dispatched:
\* unknown receiver, unknown method, invalid method shape, argument given
\* to a method that takes none.
DispatchFailure(req) ==
    IF req.rcvr = "Nope" THEN ErrNoSuchReceiver
    ELSE IF req.method = "Nope" THEN ErrNoSuchMethod
    ELSE IF req.rcvr = "Bad" THEN ErrInvalidMethod
    ELSE ErrUnexpectedArgument

\* The server's session loop takes a request that cannot be dispatched
\* off the stream in this step.
TakesFailing ==
    /\ srv.pc = "decode"
    /\ c2s # <<>>
    /\ \E plan \in FailingPlans :
        /\ Head(c2s).rcvr = plan.rcvr
        /\ Head(c2s).method = plan.method
    /\ c2s' = Tail(c2s)

\* C8: a request that cannot be dispatched is answered with an Error
\* response carrying the request's ID and the failure text; no handler is
\* called, nothing is added to the active-channel map and no forwarder is
\* started.
C8_DispatchFailure ==
    [][TakesFailing =>
        /\ srv'.pc = "respond"
        /\ srv'.res = Response("Error", Head(c2s).id, DispatchFailure(Head(c2s)), Nil)
        /\ hlog' = hlog
        /\ contexts' = contexts
        /\ sfw' = sfw]_vars

\* C8 witness: an unknown receiver and an unknown method have both been
\* answered, the second with "no such method was found", and no handler
\* has been called.
C8_Witness ==
    /\ calls[1].plan.rcvr = "Nope"
    /\ calls[2].plan.method = "Nope"
    /\ wlog = <<Response("Error", CallID(1), ErrNoSuchReceiver, Nil),
                Response("Error", CallID(2), ErrNoSuchMethod, Nil)>>
    /\ hlog = <<>>

\* C9: when the handler returned a non-nil error (lrpc.Introspect of an
\* unknown receiver), the Call that has returned took an Error response
\* with the handler's error text and returned that text as its error; its
\* call-site entry is gone and what returnSink points at is as it was.
C9_HandlerError ==
    \A p \in Callers :
        (calls[p].plan \in ErrorPlans /\ calls[p].pc = "done") =>
            /\ calls[p].resp = Response("Error", CallID(p), ErrNoSuchReceiver, Nil)
            /\ \E i \in DOMAIN hlog : hlog[i].id = CallID(p)
            /\ \E i \in DOMAIN wlog : wlog[i] = calls[p].resp
            /\ calls[p].err = ErrNoSuchReceiver
            /\ CallID(p) \notin chs
            /\ calls[p].out = Nil

\* C9 witness: a Call of lrpc.Introspect("Nope") has returned the
\* handler's error.
C9_Witness ==
    \E p \in Callers :
        /\ calls[p].plan \in ErrorPlans
        /\ calls[p].pc = "done"
        /\ calls[p].err = ErrNoSuchReceiver
        /\ \E i \in DOMAIN hlog : hlog[i] = [id |-> CallID(p), rcvr |-> "lrpc",
                                              method |-> "Introspect"]

\* What TestCalls expects of each Arith method for [5,5].
ArithOfFiveFive ==
    [Add |-> IntV(10), Sub |-> IntV(0), Mul |-> IntV(25), Div |-> IntV(1)]

\* C10: a Call of Add, Sub, Mul or Div with [5,5] that has returned has
\* returned nil, and what returnSink points at is 10, 0, 25 or 1.
C10_ArithResults ==
    \A p \in Callers :
        (/\ calls[p].pc = "done"
         /\ calls[p].plan.rcvr = "Arith"
         /\ calls[p].plan.method \in DOMAIN ArithOfFiveFive
         /\ calls[p].plan.arg = ArrV(5, 5)) =>
            /\ calls[p].err = NoError
            /\ calls[p].out = ArithOfFiveFive[calls[p].plan.method]

\* C10 witness: Mul([5,5]) and then Div([5,5]) were called on the
\* session, one after the other was answered, and returned 25 and 1.
C10_Witness ==
    /\ calls[1].plan = Plan("Arith", "Mul", ArrV(5, 5), "ptr")
    /\ calls[2].plan = Plan("Arith", "Div", ArrV(5, 5), "ptr")
    /\ calls[1].pc = "done" /\ calls[1].out = IntV(25) /\ calls[1].err = NoError
    /\ calls[2].pc = "done" /\ calls[2].out = IntV(1) /\ calls[2].err = NoError
    /\ hlog = <<[id |-> CallID(1), rcvr |-> "Arith", method |-> "Mul"],
                [id |-> CallID(2), rcvr |-> "Arith", method |-> "Div"]>>

\* The declared type of the argument of the method a plan names.
DeclaredArg(plan) ==
    IF plan.rcvr \in DOMAIN rcvrs /\ plan.method \in DOMAIN rcvrs[plan.rcvr]
    THEN rcvrs[plan.rcvr][plan.method].argType
    ELSE "none"

\* The argument is of a type every codec carries (basic, or registered with
\* gob) and is not a number given where the method declares a string.
Portable(plan) ==
    /\ plan.arg.k \in GobRegistered
    /\ ~(IsNum(plan.arg) /\ DeclaredArg(plan) = "string")

HandlerSuspended == srv.pc = "handler"

\* C12: while a handler invocation is suspended the session loop still
\* decodes and dispatches further requests: whenever a handler is
\* suspended and a request waits on the stream, the session loop can
\* decode that request.
C12_LoopDecodesWhileSuspended ==
    (HandlerSuspended /\ c2s # <<>>) => ENABLED ServerDecode

\* The value is a struct or a pointer to a struct.
StructOrPtrToStruct(v) ==
    v.kind = "struct" \/ (v.kind = "ptr" /\ v.elem = "struct")

\* C13: Register returns ErrInvalidType and leaves the registry as it was
\* whenever the value is neither a struct nor a pointer to a struct;
\* otherwise it returns nil and the registry is the earlier one with the
\* value stored under its type name, whatever was stored there before.
C13_Register ==
    reg.arg # NoValue =>
        IF StructOrPtrToStruct(reg.arg)
        THEN /\ reg.ret = NoError
             /\ reg.rcvrs = (reg.arg.name :> reg.arg) @@ reg.prev
        ELSE /\ reg.ret = ErrInvalidType
             /\ reg.rcvrs = reg.prev

\* Every shape a method can have, up to three inputs and three outputs.
Shapes ==
    {Mtd(nin, nout, ctx1, "int", o0, o1) :
        nin \in 0 .. 3, nout \in 0 .. 3, ctx1 \in BOOLEAN,
        o0 \in BOOLEAN, o1 \in BOOLEAN}

\* One or two inputs of which the first is the Context, at most two
\* outputs, and the second of two outputs of error type.
AcceptableShape(m) ==
    /\ m.numIn \in {1, 2}
    /\ m.firstIsCtx
    /\ m.numOut <= 2
    /\ m.numOut = 2 => m.out1IsError

\* The Call of caller p named a method of a registered receiver and has
\* its response.
Dispatched(p) ==
    /\ calls[p].pc = "done"
    /\ calls[p].plan.rcvr \in DOMAIN rcvrs
    /\ calls[p].plan.method \in DOMAIN rcvrs[calls[p].plan.rcvr]

\* C14: a method is accepted for dispatch if and only if it has one or
\* two inputs of which the first is the Context, at most two outputs, and
\* a second output of error type when it has two; every Call of a method of
\* any other shape, and no other, is answered "method invalid".
C14_MethodShape ==
    /\ \A m \in Shapes : mtdValid(m) <=> AcceptableShape(m)
    /\ \A p \in Callers :
        Dispatched(p) =>
            (calls[p].err = ErrInvalidMethod
                <=> ~AcceptableShape(rcvrs[calls[p].plan.rcvr][calls[p].plan.method]))

\* A method with two outputs of which the second is not an error has been
\* rejected, and Arith.Add has been dispatched.
C14_Witness ==
    /\ calls[1].pc = "done"
    /\ calls[1].plan = Plan("Bad", "SecondNotError", IntV(1), "ptr")
    /\ calls[1].err = ErrInvalidMethod
    /\ calls[2].pc = "done"
    /\ calls[2].plan = Plan("Arith", "Add", ArrV(5, 5), "ptr")
    /\ calls[2].err = NoError
    /\ calls[2].out = IntV(10)

\* C15: once the ctx passed to Serve is cancelled the listener is
\* eventually closed and the accept loop ends; and an Accept error other
\* than net.ErrClosed leaves the loop accepting.
C15_ServeStopsOnCancel ==
    /\ [](pctx => <>(lsn.closed /\ lsn.loop = "exited"))
    /\ [][lsn'.errs # lsn.errs => lsn'.loop = "accept"]_vars

\* The accept loop has gone on after Accept errors and connections, and
\* has ended once the ctx was cancelled and the listener closed.
C15_Witness ==
    /\ pctx
    /\ lsn.closed
    /\ lsn.loop = "exited"
    /\ lsn.errs > 0
    /\ lsn.conns > 0

\* The Call of caller p has returned on a response of the given type that
\* carried a value.
ReturnedOn(p, type) ==
    /\ calls[p].pc = "done"
    /\ calls[p].resp.type = type
    /\ calls[p].resp.ret.k # "nil"

\* C16: a Call whose response is of type Channel and whose returnSink is
\* not a channel returns ErrReturnNotChannel, and no entry for the channel
\* ID is ever in the call-site map and no forwarder is started for it.
C16_ReturnNotChannel ==
    \A p \in Callers :
        /\ (ReturnedOn(p, "Channel") /\ calls[p].plan.ret # "chan") =>
                calls[p].err = ErrReturnNotChannel
        /\ (calls[p].pc # "idle" /\ calls[p].plan.ret # "chan") =>
                /\ ChanID(p) \notin chs
                /\ ChanID(p) \notin DOMAIN slot
                /\ cfw[p].pc = "none"

\* Channel.Time given a pointer has returned ErrReturnNotChannel while the
\* server has pushed a value on the channel.
C16_Witness ==
    /\ ReturnedOn(1, "Channel")
    /\ calls[1].plan.ret = "ptr"
    /\ calls[1].err = ErrReturnNotChannel
    /\ \E i \in 1 .. Len(wlog) : wlog[i] = PushResponse(ChanID(1), IntV(1))

\* C17: a Call whose response is Normal with a value and whose returnSink
\* is not a pointer returns ErrReturnNotPointer and stores nothing.
C17_ReturnNotPointer ==
    \A p \in Callers :
        (ReturnedOn(p, "Normal") /\ calls[p].plan.ret # "ptr") =>
            /\ calls[p].err = ErrReturnNotPointer
            /\ calls[p].out = Nil

\* Arith.Add of [5,5] given nil as returnSink has returned
\* ErrReturnNotPointer on the response that carried 10.
C17_Witness ==
    /\ ReturnedOn(2, "Normal")
    /\ calls[2].plan = Plan("Arith", "Add", ArrV(5, 5), "nil")
    /\ calls[2].resp.ret = IntV(10)
    /\ calls[2].err = ErrReturnNotPointer
    /\ calls[2].out = Nil

\* C18: for a Context, Done() is not ready and Err() is nil before any
\* Cancel is called; Done() is ready and Err() is context.Canceled once a
\* Cancel has returned, and from then on; Deadline() reports no deadline
\* and Value() returns nil whenever they are called.
C18_ContextObservations ==
    /\ ~CancelBegun(uctx) => ~Done(uctx) /\ Err(uctx) = NoError
    /\ CancelReturned(uctx) => Done(uctx) /\ Err(uctx) = ContextCanceled
    /\ \A i \in 1 .. Len(uctx.obs) :
        LET o == uctx.obs[i] IN
        /\ (o.call = "Done" /\ ~o.begun) => ~o.res.ready
        /\ (o.call = "Err" /\ ~o.begun) => o.res.err = NoError
        /\ (o.call = "Done" /\ o.returned) => o.res.ready
        /\ (o.call = "Err" /\ o.returned) => o.res.err = ContextCanceled
        /\ o.call = "Deadline" => ~o.res.ok
        /\ o.call = "Value" => o.res.val = Nil

\* Err() was nil before any Cancel, and after a Cancel had returned Done()
\* was ready and Err() was context.Canceled.
C18_Witness ==
    /\ Len(uctx.obs) = 3
    /\ uctx.obs[1] = [call |-> "Err", res |-> [err |-> NoError],
                      begun |-> FALSE, returned |-> FALSE]
    /\ uctx.obs[2] = [call |-> "Done", res |-> [ready |-> TRUE],
                      begun |-> TRUE, returned |-> TRUE]
    /\ uctx.obs[3] = [call |-> "Err", res |-> [err |-> ContextCanceled],
                      begun |-> TRUE, returned |-> TRUE]

\* The reader loop's Decode finds the end of the stream.
EofObserved == rd.pc = "decode" /\ s2c # <<>> /\ Head(s2c) = EOF

\* C19: once the reader loop observes the end of the stream it terminates
\* and every Call blocked on its single-shot channel is released: from
\* any state in which the reader's Decode finds the end of the stream, a
\* state follows in which the reader has exited and no Call is blocked.
C19_EofReleasesCalls ==
    [](EofObserved =>
        <>(rd.pc = "exited" /\ \A p \in Callers : calls[p].pc # "wait"))

\* C20: the initial response to a request whose method was called is of
\* type Channel, carrying the channel ID and not the handler's value, with
\* the context stored in the active-channel map and the forwarder started,
\* exactly when the handler called MakeChannel and returned no error; it
\* is of type Error when the handler returned an error; otherwise it is
\* Normal with the handler's value, nil when there is none.
C20_InitialResponse ==
    [][(srv.pc = "decode" /\ srv'.pc = "respond") =>
        LET req == Head(c2s)
            x == execute(req.rcvr, req.method, req.arg)
            res == srv'.res
        IN  x.invoked =>
            /\ res.id = req.id
            /\ (res.type = "Channel") <=> (x.promote /\ x.err = NoError)
            /\ (res.type = "Error") <=> (x.err # NoError)
            /\ res.type \in {"Channel", "Error", "Normal"}
            /\ res.type = "Channel" =>
                    /\ res.ret = IdV(ChanID(req.id))
                    /\ ChanID(req.id) \in contexts'
                    /\ sfw[req.id].pc = "none"
                    /\ sfw'[req.id].pc = "range"
            /\ res.type = "Error" =>
                    /\ res.error = x.err
                    /\ ChanID(req.id) \notin contexts'
                    /\ sfw'[req.id].pc = "none"
            /\ res.type = "Normal" =>
                    /\ res.ret = WireOf(x.val)
                    /\ ChanID(req.id) \notin contexts'
                    /\ sfw'[req.id].pc = "none"]_vars

\* Channel.Count, which called MakeChannel and returned 7, is being
\* answered with its channel ID, its context stored and its forwarder
\* started; the second request is still to be decoded.
C20_Witness ==
    /\ srv.pc = "respond"
    /\ calls[1].plan = Plan("Channel", "Count", Nil, "chan")
    /\ srv.res = ChannelResponse(CallID(1), ChanID(1))
    /\ ChanID(1) \in contexts
    /\ sfw[1].pc = "range"
    /\ execute("Channel", "Count", Nil).val = IntV(7)

\* C21: on a server session no two encodes on the session codec overlap:
\* every writer inside Encode (the loop for a normal or channel response,
\* sendErr for an error response, a forwarder for a pushed value or
\* ChannelDone) holds the session's write mutex, and at most one writer is
\* inside Encode.
C21_ServerEncodesSerialized ==
    /\ LoopEncoding => srv.via = "encode"
    /\ ~(LoopEncoding /\ SFwdEncoders # {})
    /\ Cardinality(SFwdEncoders) <= 1

\* C22: on a client session no two encodes on the session codec overlap:
\* of the Calls of the user and the lrpc.ChannelDone Calls of the channel
\* forwarders, at most one is inside Encode.
C22_ClientEncodesSerialized ==
    Cardinality(CallEncoders) + Cardinality(CFwdEncoders) <= 1

\* The session loop is about to run lrpc.ChannelDone, whose lookup in
\* Server.contexts takes no lock (server.go:391), while a forwarder is
\* about to delete from the map (server.go:351-353).
ContextsRace ==
    /\ spanic = "none"
    /\ srv.pc = "decode"
    /\ c2s # <<>>
    /\ Head(c2s).rcvr = "lrpc"
    /\ Head(c2s).method = "ChannelDone"
    /\ execute(Head(c2s).rcvr, Head(c2s).method, Head(c2s).arg).invoked
    /\ ContextsWriterReady

\* A forwarder is about to evaluate c.chs[chID], which takes no lock
\* (client.go:138), while another goroutine is about to write the map.
ChsRace ==
    /\ cpanic = "none"
    /\ \E p \in Callers : cfw[p].pc = "start" /\ ChsWriterReady(p)

\* C23: every access to the server's active-channel map and to the
\* client's call-site map is made holding the map's mutex, so that no two
\* tasks access a map concurrently with one of them writing: no access
\* that takes no lock is ever ready together with a write of the same map.
C23_MapsGuarded == ~ContextsRace /\ ~ChsRace

\* The requests the session loop has taken off the stream.
RequestsDecoded ==
    Cardinality({p \in Callers : calls[p].pc # "idle"})
        - (Len(c2s) - IF RequestsEnded THEN 1 ELSE 0)

\* The session loop's Decode fails in this step: with io.EOF, or with
\* another error.
DecodesEof ==
    /\ srv.pc = "decode"
    /\ c2s # <<>>
    /\ Head(c2s) = EndOfStream
    /\ srv' # srv
DecodesMalformed ==
    /\ srv.pc = "decode"
    /\ c2s # <<>>
    /\ Head(c2s).rcvr = "malformed"
    /\ c2s' = Tail(c2s)

\* C24: in the server session loop a Decode that fails with end-of-stream
\* ends the loop and writes no response; any other Decode failure writes
\* one Error response carrying the ID that was decoded, calls no handler,
\* and the loop goes on to the next request.  In every state the loop has
\* written one response for each request it has taken off the stream (the
\* one it is about to write excepted) and none for the end of the stream.
C24_DecodeFailure ==
    /\ [](Len(wlog) = RequestsDecoded - IF srv.pc = "respond" THEN 1 ELSE 0)
    /\ [][(DecodesEof =>
                /\ srv'.pc = "exited"
                /\ wlog' = wlog
                /\ s2c' = s2c)
           /\ (DecodesMalformed =>
                /\ srv'.pc = "respond"
                /\ srv'.res = Response("Error", Head(c2s).id, ErrDecode, Nil)
                /\ hlog' = hlog)
           /\ ((srv.pc = "respond" /\ srv' # srv) =>
                /\ wlog' = Append(wlog, srv.res)
                /\ srv'.pc = "decode")
           /\ (srv.pc = "exited" => (srv' = srv /\ wlog' = wlog))]_vars

\* A request that decoded to nothing was answered with an Error response
\* of empty ID, the loop went on to answer Arith.Add, and then ended on
\* the end of the stream.
C24_Witness ==
    /\ srv.pc = "exited"
    /\ RequestsEnded
    /\ calls[2].plan = Plan("Arith", "Add", ArrV(5, 5), "ptr")
    /\ wlog = <<Response("Error", 0, ErrDecode, Nil),
                NormalResponse(CallID(2), IntV(10))>>

\* C25: when a server session's loop ends on end-of-stream, the contexts
\* of all channels created on the session are cancelled, their forwarders
\* eventually terminate and their entries leave the active-channel map:
\* from any state in which the loop has ended, a state follows in which
\* Done() is ready for every context made on the session, no forwarder
\* runs and the map holds none of the session's channels.
C25_SessionEndCancels ==
    [](srv.pc = "exited" =>
        <>(\A p \in Callers :
            sctx[p].made =>
                /\ CtxDone(p)
                /\ ~ForwarderRunning(p)
                /\ ChanID(p) \notin contexts))

\* The single-shot Call of caller p has returned after a Normal or an
\* Error response.
SingleShotReturned(p) ==
    calls[p].pc = "done" /\ calls[p].resp.type \in {"Normal", "Error"}

\* The channel of caller p's Call has ended: its forwarder has closed the
\* user's channel on ChannelDone or after the user's cancellation, or has
\* left its loop.
ChannelEnded(p) == sink[p].closed \/ cfw[p].pc = "exited"

\* C26: once a single-shot Call has returned after a Normal or Error
\* response (a forwarder's lrpc.ChannelDone Call included), and once a
\* channel has ended by ChannelDone or by the consumer's cancellation, the
\* call-site map holds no entry under that call ID or channel ID, in that
\* state and in every later one.
C26_EntriesRemoved ==
    \A p \in Callers :
        /\ SingleShotReturned(p) => CallID(p) \notin chs
        /\ \A k \in 0 .. MaxPush : k < cfw[p].k => CdID(p, k) \notin chs
        /\ ChannelEnded(p) => ChanID(p) \notin chs

\* The user cancelled the channel Call, the forwarder's lrpc.ChannelDone
\* Call has returned and the user's channel is closed, Arith.Add has
\* returned 10, and the map is empty although the server has gone on to
\* write a response under the channel ID.
C26_Witness ==
    /\ cctx[1]
    /\ cfw[1].k = 1
    /\ sink[1].closed
    /\ calls[2].pc = "done"
    /\ calls[2].out = IntV(10)
    /\ chs = {}
    /\ s2c # <<>>
    /\ Head(s2c).id = ChanID(1)

\* The session loop takes, in this step, an lrpc.ChannelDone request that
\* names the channel of caller p's Call while that channel is in the
\* active-channel map.
TakesChannelDoneOf(p) ==
    /\ TakesChannelDone
    /\ Head(c2s).arg = IdV(ChanID(p))
    /\ ChanID(p) \in contexts

\* A ChannelDone response for the channel of caller p's Call has been
\* written.
ChannelDoneWritten(p) ==
    \E i \in 1 .. Len(wlog) : wlog[i] = ChannelDoneResponse(ChanID(p))

\* C27: lrpc.ChannelDone with the ID of an active channel cancels the
\* channel's context and removes its entry from the active-channel map;
\* and if the producer closes the push queue once Done() is ready, then
\* after the context is cancelled the forwarder ends and a ChannelDone
\* response for the ID is eventually written.
C27_ChannelDoneEndsChannel ==
    /\ [][\A p \in Callers :
            TakesChannelDoneOf(p) =>
                (sctx'[p].canceled /\ ChanID(p) \notin contexts')]_vars
    /\ \A p \in Callers :
        ProducerClosesOnDone(p) =>
            []((sctx[p].canceled /\ ForwarderRunning(p)) =>
                <>(sfw[p].pc = "exited" /\ ChannelDoneWritten(p)))

\* The responses written under the ID of the channel of caller p's Call,
\* in the order they were written.
IsOfChannel(p, r) == r.id = ChanID(p)
ChannelLog(p) ==
    LET Of(r) == IsOfChannel(p, r) IN SelectSeq(wlog, Of)

\* The responses that carry the values 1..n pushed on caller p's channel.
PushResponses(p, n) == [i \in 1 .. n |-> PushResponse(ChanID(p), IntV(i))]

TakesUnmatched ==
    /\ rd.pc = "decode"
    /\ s2c # <<>>
    /\ Head(s2c).id \notin chs
    /\ s2c' = Tail(s2c)

\* C29: a response that answers a single-shot call and whose ID matches
\* no call-site entry is dropped: the reader adds no entry for it, hands
\* it to no Call, and goes on to decode the next response; the map only
\* ever holds the entries of Calls that are blocked on their response.
C29_UnmatchedDropped ==
    /\ [](chs \subseteq {CallID(p) : p \in {q \in Callers : calls[q].pc = "wait"}})
    /\ [][TakesUnmatched =>
            /\ chs' = chs
            /\ slot' = slot
            /\ calls' = calls
            /\ rd' = rd
            /\ rd'.pc = "decode"]_vars

\* The request of the first Call reached the server as bytes with no ID;
\* the Error response of empty ID has been read and dropped, the map
\* holds the blocked Call's entry only, and the reader has gone on to
\* deliver the response of the second Call.
C29_Witness ==
    /\ calls[1].pc = "wait"
    /\ calls[2].pc = "done"
    /\ calls[2].err = NoError
    /\ wlog[1] = Response("Error", 0, ErrDecode, Nil)
    /\ s2c = <<>>
    /\ rd.pc = "decode"
    /\ chs = {CallID(1)}

\* Whether a decoded argument can be brought to the declared type: a
\* sequence of as many numbers as the array has elements, a number for a
\* number, a string for a string.
Coercible(arg, t) ==
    CASE t = "arr2int" ->
            /\ arg.k = "seq"
            /\ Len(arg.v) = 2
            /\ \A i \in 1 .. Len(arg.v) : IsNum(arg.v[i])
      [] t = "int" -> IsNum(arg)
      [] t = "string" -> arg.k \in {"str", "id"}
      [] OTHER -> arg.k = "nil"

\* The session loop takes, in this step, a request for a dispatchable
\* method whose argument cannot be coerced to the declared type.
TakesUncoercible ==
    /\ srv.pc = "decode"
    /\ c2s # <<>>
    /\ c2s' = Tail(c2s)
    /\ Head(c2s).rcvr \in DOMAIN rcvrs
    /\ Head(c2s).method \in DOMAIN rcvrs[Head(c2s).rcvr]
    /\ mtdValid(rcvrs[Head(c2s).rcvr][Head(c2s).method])
    /\ ~Coercible(Head(c2s).arg, DeclaredArg(Head(c2s)))

\* C30: when the request's argument cannot be coerced to the method's
\* declared argument type (wrong kind, or a sequence whose length differs
\* from the declared array length) the server answers with an Error
\* response carrying the request's ID and does not call the handler: not
\* with a zero value in the argument's place, and without faulting.
C30_CoercionFailure ==
    [][TakesUncoercible =>
        /\ spanic' = "none"
        /\ hlog' = hlog
        /\ srv'.pc = "respond"
        /\ srv'.res.type = "Error"
        /\ srv'.res.id = Head(c2s).id]_vars

\* The forwarder of caller p's channel issues one more lrpc.ChannelDone
\* Call in this step.
IssuesChannelDone(p) ==
    /\ Len(c2s') = Len(c2s) + 1
    /\ c2s'[Len(c2s')].rcvr = "lrpc"
    /\ c2s'[Len(c2s')].method = "ChannelDone"
    /\ c2s'[Len(c2s')].arg = IdV(cfw[p].ch)
    /\ cfw'[p].pc = "cdwait"

\* A panic of this step that is the forwarder's: the reader is not the
\* one that sends.
ForwarderPanics(p, what) ==
    /\ cpanic = "none"
    /\ cpanic' \in what
    /\ cfw[p].pc \in {"range", "select", "cdwait"}
    /\ rd.pc # "deliver"

\* C31: once the consumer sequence of a channel has been closed (after
\* ChannelDone or after the cancellation of the caller's ctx) the client
\* forwarder stops: it sends no other value to the consumer sequence,
\* closes neither the consumer sequence nor the call-site queue a second
\* time and issues no other lrpc.ChannelDone Call.
C31_ForwarderStops ==
    [][\A p \in Callers : sink[p].closed =>
        /\ sink'[p].buf = sink[p].buf \/ Len(sink'[p].buf) < Len(sink[p].buf)
        /\ ~ForwarderPanics(p, {"send on closed channel"})
        /\ ~ForwarderPanics(p, {"close of nil channel",
                                "close of closed channel"})
        /\ ~IssuesChannelDone(p)]_vars

\* Caller k of Cancel reaches close(ctx.doneCh) in this step after
\* another Cancel has closed the channel.
SecondCancelCloses(k) ==
    /\ uctx.panic = "none"
    /\ uctx.closed
    /\ uctx.cancel[k] = "set"
    /\ \/ uctx'.cancel[k] # uctx.cancel[k]
       \/ uctx'.panic # uctx.panic

\* C32: cancelling a per-call context more than once is harmless: when
\* lrpc.ChannelDone has cancelled the context of a channel and the
\* forwarder cancels it again after the push queue was closed (or the
\* other way round), the second Cancel does nothing and returns, so that
\* its caller goes on: nothing panics and the context stays cancelled.
C32_SecondCancelHarmless ==
    [][\A k \in Cancellers : SecondCancelCloses(k) =>
        /\ uctx'.panic = "none"
        /\ uctx'.cancel[k] = "done"
        /\ uctx'.closed
        /\ uctx'.canceled]_vars

\* The user has cancelled the ctx of a channel Call.
ChannelCallCancelled == \E p \in Callers : cctx[p] /\ cfw[p].pc # "none"

\* Neither process has been stopped by a panic.
Running == cpanic = "none" /\ spanic = "none"

\* C33: after a channel Call is cancelled by the client the reader loop
\* keeps making progress: what the server still sends under the channel
\* ID (values, ChannelDone) never blocks it for good, so that a Call that
\* waits on the session, the forwarder's own lrpc.ChannelDone Call among
\* them, receives its response.  As long as both processes run, a
\* response the reader holds is delivered and the forwarder's
\* lrpc.ChannelDone Call returns.
C33_ReaderProgress ==
    /\ (ChannelCallCancelled /\ rd.pc = "deliver")
            ~> (rd.pc = "decode" \/ ~Running)
    /\ \A p \in Callers :
        (cfw[p].pc = "cdwait") ~> (cfw[p].pc # "cdwait" \/ ~Running)

\* C34: for a promoted call the Channel response, which carries the
\* channel ID, is written to the session before every response of a
\* pushed value and before the ChannelDone response that carry that
\* channel ID.
C34_ChannelResponseFirst ==
    \A p \in Callers : \A i \in 1 .. Len(wlog) :
        IsOfChannel(p, wlog[i]) =>
            \E j \in 1 .. i - 1 : wlog[j] = ChannelResponse(CallID(p), ChanID(p))

\* The session loop takes, in this step, a request without argument for a
\* dispatchable method that declares one.
TakesNoArgument ==
    /\ srv.pc = "decode"
    /\ c2s # <<>>
    /\ c2s' = Tail(c2s)
    /\ Head(c2s).rcvr \in DOMAIN rcvrs
    /\ Head(c2s).method \in DOMAIN rcvrs[Head(c2s).rcvr]
    /\ mtdValid(rcvrs[Head(c2s).rcvr][Head(c2s).method])
    /\ rcvrs[Head(c2s).rcvr][Head(c2s).method].numIn = 2
    /\ Head(c2s).arg = Nil

\* C35: a request that carries no argument for a method that declares
\* one is answered with an Error response with the request's ID: the
\* session loop does not fault and the handler is not called.
C35_MissingArgument ==
    [][TakesNoArgument =>
        /\ spanic' = "none"
        /\ hlog' = hlog
        /\ srv'.pc = "respond"
        /\ srv'.res.type = "Error"
        /\ srv'.res.id = Head(c2s).id]_vars

\* Caller p's Call returns in this step without having sent its request.
FailsBeforeSend(p) ==
    /\ calls[p].pc = "idle"
    /\ calls'[p].pc = "done"
    /\ c2s' = c2s

\* C36: if Call fails before its request is sent (the argument cannot be
\* marshaled or the encode fails) it returns that error and leaves no
\* entry for its ID in the call-site map.
C36_FailedCallLeavesNoEntry ==
    [][\A p \in Callers : FailsBeforeSend(p) =>
        /\ calls'[p].err = ErrEncode
        /\ CallID(p) \notin chs']_vars

\* The initial responses written with a request's ID.
InitialResponses(id) ==
    {i \in 1 .. Len(wlog) :
        wlog[i].id = id /\ wlog[i].type \in {"Normal", "Error", "Channel"}}

\* The session loop has decoded the request of caller p's Call.
RequestTaken(p) ==
    /\ calls[p].pc # "idle"
    /\ calls[p].err # ErrEncode
    /\ \A i \in 1 .. Len(c2s) : c2s[i].id # CallID(p)

\* The session loop is between the Decode of the request and the write
\* of its response.
InHand(id) ==
    /\ spanic = "none"
    /\ srv.pc \notin {"decode", "exited"}
    /\ srv.res.id = id

\* C37: for every request the session loop decodes exactly one initial
\* response (Normal, Error or Channel) with the request's ID is written,
\* never none and never two: none while the loop has the request in hand,
\* one from then on.
C37_OneInitialResponse ==
    \A p \in Callers :
        /\ Cardinality(InitialResponses(CallID(p))) <= 1
        /\ RequestTaken(p) =>
            Cardinality(InitialResponses(CallID(p)))
                = IF InHand(CallID(p)) THEN 0 ELSE 1

\* The Calls whose request the session loop has decoded and whose initial
\* response is not written.
Unanswered ==
    {p \in Callers : RequestTaken(p) /\ InitialResponses(CallID(p)) = {}}

\* The session loop takes a request from the stream in this step.
DecodesRequest == c2s # <<>> /\ c2s' = Tail(c2s)

\* The initial response of a user's Call is written in this step.
WritesInitial ==
    /\ Len(wlog') = Len(wlog) + 1
    /\ wlog'[Len(wlog')].type \in {"Normal", "Error", "Channel"}
    /\ \E p \in Callers : wlog'[Len(wlog')].id = CallID(p)

\* C38: on one server session the initial responses (Normal, Error or
\* Channel) are written in the order in which their requests were
\* decoded, and a request is decoded only after the handler of the
\* previous request has returned.  At most one decoded request is without
\* its initial response; a request is decoded only when no handler is
\* suspended and every request decoded before has its response; and the
\* initial response written is that of the one request decoded last.
C38_ResponsesInDecodeOrder ==
    /\ [](Cardinality(Unanswered) <= 1)
    /\ [][DecodesRequest =>
            /\ srv.pc = "decode"
            /\ ~HandlerSuspended
            /\ Unanswered = {}]_vars
    /\ [][WritesInitial =>
            /\ Unanswered = {wlog'[Len(wlog')].id}
            /\ wlog'[Len(wlog')] = srv.res]_vars

\* Slow.Wait was suspended while the request of the second Call waited on
\* the stream; both responses are written, in the order of the requests.
C38_Witness ==
    /\ Len(hlog) >= 1
    /\ hlog[1].method = "Wait"
    /\ Len(wlog) = 2
    /\ wlog[1].id = CallID(1)
    /\ wlog[2].id = CallID(2)

\* An lrpc.ChannelDone request of another session is run in this step.
PeerChannelDoneRuns ==
    /\ Len(hlog') = Len(hlog) + 1
    /\ hlog'[Len(hlog')].id = PeerID

\* C39: an lrpc.ChannelDone request received on one session can cancel
\* only a channel that was created on that same session: run for a
\* request of another session, it neither cancels the context of this
\* session's channel nor removes its entry from the active-channel map.
C39_ChannelDoneStaysInSession ==
    [][PeerChannelDoneRuns =>
        /\ contexts' = contexts
        /\ \A p \in Callers : sctx'[p].canceled = sctx[p].canceled]_vars

====
